---- MODULE Spec2Model ----
(***************************************************************************)
(* Model of the career-quiz AI service (AiService): the scoring engine,    *)
(* the narrative / recommendation pipeline with its JSON extraction, and   *)
(* the quiz resolver with its flag self-repair.                            *)
(*                                                                         *)
(* The specifications of the module:                                       *)
(*   SpecAnalyze  analyzeQuizAnswers / generateAIAnalysis / extractJson    *)
(*   SpecTwoRuns  two runs of analyzeQuizAnswers on one quiz               *)
(*   SpecContent  getVerifiedEducationalContent and the three generators   *)
(*   Spec         the quiz store, getLatestQuiz and its callers            *)
(*   SpecSubmit   two concurrent submitQuizAnswers on one stored quiz      *)
(***************************************************************************)
EXTENDS Integers, Sequences, FiniteSets, TLC

VARIABLES
    quiz,        \* analyzeQuizAnswers: the quiz argument
    reply,       \* analyzeQuizAnswers: what the text generator does
    result,      \* analyzeQuizAnswers: the returned value (or the failure)
    reply2,      \* a second run on the same quiz: what the generator does
    result2,     \* a second run on the same quiz: the returned value
    cin,         \* content pipeline: the call, its arguments, what the providers do
    cout,        \* content pipeline: the returned value
    store,       \* the career_quizzes collection, in insertion order
    op           \* per request: the operation, its arguments, its position,
                 \* its in-memory quiz document and what it has written

avars == <<quiz, reply, result, reply2, result2>>
cvars == <<cin, cout>>
svars == <<store, op>>

----------------------------------------------------------------------------
(* Bounds of the model *)

MaxQuestions == 2
MaxAnswers == 2
MaxAnswerValue == 4
MaxTextLen == 3
IdLen == 3

(* Program constants *)

NumOptions == 4
TopN == 3

(* find().limit(100) of the id scan, scaled down with the store *)
ScanLimit == 2

----------------------------------------------------------------------------
(* Small helpers *)

Min(a, b) == IF a <= b THEN a ELSE b

SeqsUpTo(S, n) == UNION {[1..k -> S] : k \in 0..n}

Range(s) == {s[i] : i \in 1..Len(s)}

----------------------------------------------------------------------------
(* Static configuration: age range -> career areas (loadAgeScales) *)

BaseAreas == <<"Art", "Science", "Technology", "Nature", "Communication">>

loadAgeScales ==
    [range \in {"6-8", "9-12", "13-15", "16-18"} |->
        CASE range = "6-8"   -> BaseAreas
          [] range = "9-12"  -> BaseAreas \o <<"Leadership">>
          [] range = "13-15" -> BaseAreas \o <<"Leadership", "Business">>
          [] range = "16-18" -> BaseAreas \o <<"Leadership", "Business", "Healthcare">>]

SupportedRanges == DOMAIN loadAgeScales

----------------------------------------------------------------------------
(* Generator text, as a sequence of lexical tokens.                        *)
(*   "fence" "fence_json"  a code fence (three backquotes), bare or tagged json *)
(*   "{" "}" "[" "]"     JSON punctuation                                  *)
(*   "str"               a JSON string literal                             *)
(*   "explanation:" ...  an object key with its colon                      *)
(*   "prose"             free text that is not JSON                        *)

Fences == {"fence", "fence_json"}

KeyTokens == {"explanation:", "skills:", "games:", "books:", "resources:", "name:"}

KeyOf(tok) ==
    CASE tok = "explanation:" -> "explanation"
      [] tok = "skills:"      -> "skills"
      [] tok = "games:"       -> "games"
      [] tok = "books:"       -> "books"
      [] tok = "resources:"   -> "resources"
      [] tok = "name:"        -> "name"

(* JSON values: [t |-> "str"], [t |-> "arr", items |-> <<...>>],           *)
(* [t |-> "obj", keys |-> <<k1, ...>>, vals |-> <<v1, ...>>]               *)

JStr(s) == [t |-> "str", s |-> s]
JArr(items) == [t |-> "arr", items |-> items]
JObj(keys, vals) == [t |-> "obj", keys |-> keys, vals |-> vals]

ParseFail == [ok |-> FALSE, val |-> JStr("none"), rest |-> <<>>]

RECURSIVE ParseValue(_)
RECURSIVE ParseElems(_)
RECURSIVE ParseMembers(_)

(* the grammar of JSON.parse over the tokens: value, array elements, object members *)
ParseValue(toks) ==
    IF toks = <<>> THEN ParseFail
    ELSE CASE Head(toks) = "str" -> [ok |-> TRUE, val |-> JStr("text"), rest |-> Tail(toks)]
           [] Head(toks) = "["   -> ParseElems(Tail(toks))
           [] Head(toks) = "{"   -> ParseMembers(Tail(toks))
           [] OTHER              -> ParseFail

ParseElems(toks) ==
    IF toks = <<>> THEN ParseFail
    ELSE IF Head(toks) = "]"
         THEN [ok |-> TRUE, val |-> JArr(<<>>), rest |-> Tail(toks)]
         ELSE LET v == ParseValue(toks) IN
              IF ~v.ok THEN ParseFail
              ELSE LET r == ParseElems(v.rest) IN
                   IF ~r.ok THEN ParseFail
                   ELSE [ok |-> TRUE, val |-> JArr(<<v.val>> \o r.val.items), rest |-> r.rest]

ParseMembers(toks) ==
    IF toks = <<>> THEN ParseFail
    ELSE IF Head(toks) = "}"
         THEN [ok |-> TRUE, val |-> JObj(<<>>, <<>>), rest |-> Tail(toks)]
         ELSE IF Head(toks) \notin KeyTokens THEN ParseFail
              ELSE LET v == ParseValue(Tail(toks)) IN
                   IF ~v.ok THEN ParseFail
                   ELSE LET r == ParseMembers(v.rest) IN
                        IF ~r.ok THEN ParseFail
                        ELSE [ok |-> TRUE,
                              val |-> JObj(<<KeyOf(Head(toks))>> \o r.val.keys,
                                           <<v.val>> \o r.val.vals),
                              rest |-> r.rest]

(* JSON.parse(text): succeeds only when the whole text is one value *)
JSONparse(toks) ==
    LET r == ParseValue(toks) IN
    IF r.ok /\ r.rest = <<>> THEN [ok |-> TRUE, val |-> r.val]
    ELSE [ok |-> FALSE, val |-> JStr("none")]

(* obj.key of a parsed value; a repeated key keeps its last value *)
HasKey(v, k) == v.t = "obj" /\ \E i \in 1..Len(v.keys) : v.keys[i] = k

GetKey(v, k) ==
    LET i == CHOOSE j \in 1..Len(v.keys) :
                 v.keys[j] = k /\ \A m \in (j+1)..Len(v.keys) : v.keys[m] # k
    IN v.vals[i]

----------------------------------------------------------------------------
(* extractJson *)

Positions(toks, S) == {i \in 1..Len(toks) : toks[i] \in S}

SetMin(S) == CHOOSE x \in S : \A y \in S : x <= y
SetMax(S) == CHOOSE x \in S : \A y \in S : x >= y

(* text.match of the fenced-block pattern (fence, optional json, lazy body,
   fence): the body between the first fence and the next one *)
FencedMatch(toks) ==
    LET f == Positions(toks, Fences) IN
    IF Cardinality(f) < 2 THEN [found |-> FALSE, group |-> <<>>]
    ELSE LET a == SetMin(f)
             b == SetMin(f \ {a})
         IN [found |-> TRUE, group |-> SubSeq(toks, a + 1, b - 1)]

(* text.match(/({[\s\S]*})/): from the first "{" to the last "}" after it *)
BraceMatch(toks) ==
    LET o == Positions(toks, {"{"})
        c == Positions(toks, {"}"})
    IN IF o = {} \/ c = {} \/ SetMax(c) < SetMin(o)
       THEN [found |-> FALSE, group |-> <<>>]
       ELSE [found |-> TRUE, group |-> SubSeq(toks, SetMin(o), SetMax(c))]

(* text.replace of every fence, tagged or bare, by the empty string *)
StripFences(toks) == SelectSeq(toks, LAMBDA x : x \notin Fences)

(* the cleanup retry: strip the fences, then cut to first "{" .. last "}" *)
CleanedText(toks) ==
    LET s == StripFences(toks)
        o == Positions(s, {"{"})
        c == Positions(s, {"}"})
    IN IF o # {} /\ c # {} /\ SetMax(c) + 1 > SetMin(o)
       THEN SubSeq(s, SetMin(o), SetMax(c))
       ELSE s

(* jsonMatch ? jsonMatch[1].trim() : text.trim() *)
ExtractedText(toks) ==
    LET fm == FencedMatch(toks)
        bm == BraceMatch(toks)
    IN IF fm.found THEN fm.group
       ELSE IF bm.found THEN bm.group ELSE toks

extractJson(toks) ==
    IF JSONparse(ExtractedText(toks)).ok THEN ExtractedText(toks)
    ELSE IF JSONparse(CleanedText(toks)).ok THEN CleanedText(toks)
    ELSE <<"[", "]">>

----------------------------------------------------------------------------
(* analyzeQuizAnswers: the scoring engine *)

NoScoring == [present |-> FALSE, areas |-> <<>>, rows |-> <<>>]

(* question.scoring: the areas in key order, each with its row of points *)
Scoring(areas, rows) == [present |-> TRUE, areas |-> areas, rows |-> rows]

(* mutant of RowValue: the row read with a 1-based index *)
RowValueOneBased(row, answer) ==
    IF answer >= 1 /\ answer <= Len(row) THEN row[answer] ELSE 0

(* question.scoring[area][answer] || 0 ; answer is a 0-based option index *)
RowValue(row, answer) ==
    IF answer >= 0 /\ answer < Len(row) THEN row[answer + 1] ELSE 0

(* mutant of AddAnswer: no hasOwnProperty test, every area of the matrix
   gets an entry *)
AddAnswerAnyArea(scores, question, answer) ==
    [area \in DOMAIN scores \cup Range(question.areas) |->
        (IF area \in DOMAIN scores THEN scores[area] ELSE 0)
        + (IF \E k \in 1..Len(question.areas) : question.areas[k] = area
           THEN LET k == CHOOSE j \in 1..Len(question.areas) : question.areas[j] = area
                IN RowValue(question.rows[k], answer)
           ELSE 0)]

(* the per-question body of quiz.answers.forEach: add the answer's points
   to every tracked area named by the question's scoring matrix *)
AddAnswer(scores, question, answer) ==
    [area \in DOMAIN scores |->
        IF \E k \in 1..Len(question.areas) : question.areas[k] = area
        THEN LET k == CHOOSE j \in 1..Len(question.areas) : question.areas[j] = area
             IN scores[area] + RowValue(question.rows[k], answer)
        ELSE scores[area]]

RECURSIVE ProcessAnswersClamped(_, _, _, _)
(* mutant of ProcessAnswers: an answer beyond the last question is scored
   against the last question *)
ProcessAnswersClamped(scores, questions, answers, index) ==
    IF index > Len(answers) THEN scores
    ELSE LET at == Min(index, Len(questions))
             next == IF at >= 1 /\ questions[at].present
                     THEN AddAnswer(scores, questions[at], answers[index])
                     ELSE scores
         IN ProcessAnswersClamped(next, questions, answers, index + 1)

RECURSIVE ProcessAnswers(_, _, _, _)
(* quiz.answers.forEach((answer, index) => ...) from position index on *)
ProcessAnswers(scores, questions, answers, index) ==
    IF index > Len(answers) THEN scores
    ELSE LET next == IF index <= Len(questions) /\ questions[index].present
                     THEN AddAnswer(scores, questions[index], answers[index])
                     ELSE scores
         IN ProcessAnswers(next, questions, answers, index + 1)

computeScores(careerAreas, questions, answers) ==
    ProcessAnswers([area \in Range(careerAreas) |-> 0], questions, answers, 1)

(* mutant of InsertEntry: an entry overtakes the entries of equal score *)
InsertEntryUnstable(sorted, area, scores) ==
    LET k == Cardinality({i \in 1..Len(sorted) : scores[sorted[i]] > scores[area]})
    IN SubSeq(sorted, 1, k) \o <<area>> \o SubSeq(sorted, k + 1, Len(sorted))

(* one step of the stable sort with comparator (b - a): the entry goes
   after every entry already placed whose score is not smaller *)
InsertEntry(sorted, area, scores) ==
    LET k == Cardinality({i \in 1..Len(sorted) : scores[sorted[i]] >= scores[area]})
    IN SubSeq(sorted, 1, k) \o <<area>> \o SubSeq(sorted, k + 1, Len(sorted))

RECURSIVE SortFrom(_, _, _, _)
SortFrom(sorted, entries, scores, i) ==
    IF i > Len(entries) THEN sorted
    ELSE SortFrom(InsertEntry(sorted, entries[i], scores), entries, scores, i + 1)

(* Object.entries(scores).sort(([,a],[,b]) => b - a) *)
sortedScores(careerAreas, scores) == SortFrom(<<>>, careerAreas, scores, 1)

(* .slice(0, 3).map(([area]) => area) *)
topCareerAreasOf(careerAreas, scores) ==
    LET s == sortedScores(careerAreas, scores)
    IN SubSeq(s, 1, Min(TopN, Len(s)))

----------------------------------------------------------------------------
(* generateAIAnalysis *)

Join(areas) == areas

(* the fallback analysis of the catch block *)
CannedNarrative(topCareerAreas) ==
    JObj(<<"explanation", "skills", "activities", "encouragement">>,
         << JStr(<<"Based on your answers, you show strong interest in">> \o Join(topCareerAreas)),
            JArr(<<JStr("Critical thinking"), JStr("Problem solving"), JStr("Communication")>>),
            JArr(<<JStr("Join relevant clubs"), JStr("Try hands-on projects"), JStr("Explore online courses")>>),
            JStr("Keep exploring your interests and trying new things!") >>)

(* the generator's behaviour: a transport failure, or a reply text *)
Failure == [ok |-> FALSE, text |-> <<>>]
Reply(text) == [ok |-> TRUE, text |-> text]

(* mutant of generateAIAnalysis: the catch block returns an empty value *)
generateAIAnalysisNoFallback(topCareerAreas, r) ==
    IF ~r.ok THEN JArr(<<>>)
    ELSE JSONparse(extractJson(r.text)).val

generateAIAnalysis(topCareerAreas, r) ==
    IF ~r.ok THEN CannedNarrative(topCareerAreas)
    ELSE JSONparse(extractJson(r.text)).val

----------------------------------------------------------------------------
(* analyzeQuizAnswers *)

NoResult == [status |-> "none", topCareerAreas |-> <<>>, scores |-> <<>>,
             aiAnalysis |-> JStr("none"), ageRange |-> ""]

AnalysisError == [status |-> "error", topCareerAreas |-> <<>>, scores |-> <<>>,
                  aiAnalysis |-> JStr("none"), ageRange |-> ""]

(* mutant of analyzeQuizAnswers: an unknown age range scored on the default
   area list, the way generateCareerQuiz picks its areas *)
analyzeQuizAnswersDefaultAreas(q, r) ==
    LET careerAreas == IF q.ageRange \in SupportedRanges
                       THEN loadAgeScales[q.ageRange] ELSE BaseAreas
        scores == computeScores(careerAreas, q.questions, q.answers)
        top == topCareerAreasOf(careerAreas, scores)
    IN [status |-> "ok", topCareerAreas |-> top, scores |-> scores,
        aiAnalysis |-> generateAIAnalysis(top, r), ageRange |-> q.ageRange]

(* mutant of analyzeQuizAnswers: a failed narrative fails the analysis *)
analyzeQuizAnswersNarrativeBlocks(q, r) ==
    IF q.ageRange \notin SupportedRanges \/ ~r.ok THEN AnalysisError
    ELSE LET careerAreas == loadAgeScales[q.ageRange]
             scores == computeScores(careerAreas, q.questions, q.answers)
             top == topCareerAreasOf(careerAreas, scores)
         IN [status |-> "ok", topCareerAreas |-> top, scores |-> scores,
             aiAnalysis |-> generateAIAnalysis(top, r), ageRange |-> q.ageRange]

analyzeQuizAnswers(q, r) ==
    IF q.ageRange \notin SupportedRanges THEN AnalysisError
    ELSE LET careerAreas == loadAgeScales[q.ageRange]
             scores == computeScores(careerAreas, q.questions, q.answers)
             top == topCareerAreasOf(careerAreas, scores)
         IN [status |-> "ok", topCareerAreas |-> top, scores |-> scores,
             aiAnalysis |-> generateAIAnalysis(top, r), ageRange |-> q.ageRange]

----------------------------------------------------------------------------
(* The three generators: games, books, resources *)

(* one element of a returned list: the generated (or hardcoded) item with
   the type tag the map step adds; resourceType only for resources *)
Item(fields, type, resourceType) ==
    [fields |-> fields, type |-> type, resourceType |-> resourceType]

RECURSIVE MapItems(_, _, _)
MapItems(items, type, isResource) ==
    IF items = <<>> THEN <<>>
    ELSE LET x == Head(items)
             rt == IF ~isResource THEN "n/a"
                   ELSE IF HasKey(x, "type") THEN "given" ELSE "website"
         IN <<Item(x, type, rt)>> \o MapItems(Tail(items), type, isResource)

(* the shape normalisation after JSON.parse: unwrap an array held under the
   category key, wrap any other non-array value in a one-element list *)
NormalizeList(v, key) ==
    IF v.t # "arr" /\ HasKey(v, key) /\ GetKey(v, key).t = "arr" THEN GetKey(v, key).items
    ELSE IF v.t # "arr" THEN <<v>>
    ELSE v.items

Named(k, name, k2, v2) == JObj(<<k, k2>>, <<JStr(name), JStr(v2)>>)

difficultyByAge(ageRange) ==
    CASE ageRange = "6-8"   -> "Easy"
      [] ageRange = "9-12"  -> "Easy-Medium"
      [] ageRange = "13-15" -> "Medium"
      [] ageRange = "16-18" -> "Medium-Hard"
      [] OTHER              -> "Easy"

FallbackGames(ageRange) ==
    << Item(Named("name", "Career Explorer Game", "difficulty", difficultyByAge(ageRange)),
            "educational_game", "n/a"),
       Item(Named("name", "Skills Challenge", "difficulty", difficultyByAge(ageRange)),
            "educational_game", "n/a") >>

FallbackBooks(ageRange) ==
    CASE ageRange = "6-8" ->
           <<Item(Named("title", "Oh, the Places You'll Go!", "author", "Dr. Seuss"), "educational_book", "n/a")>>
      [] ageRange = "9-12" ->
           <<Item(Named("title", "What Do You Want to Be When You Grow Up?", "author", "DK Publishing"), "educational_book", "n/a")>>
      [] ageRange = "13-15" ->
           <<Item(Named("title", "You Can Be Anything!", "author", "Gary Bolles"), "educational_book", "n/a")>>
      [] ageRange = "16-18" ->
           <<Item(Named("title", "What Color Is Your Parachute? for Teens", "author", "Carol Christen"), "educational_book", "n/a")>>
      [] OTHER ->
           <<Item(Named("title", "Career Exploration Guide", "author", "Various Authors"), "educational_book", "n/a")>>

skillLevelByAge(ageRange, default) ==
    CASE ageRange = "6-8"   -> "Beginner"
      [] ageRange = "9-12"  -> "Beginner to Intermediate"
      [] ageRange = "13-15" -> "Intermediate"
      [] ageRange = "16-18" -> "Intermediate to Advanced"
      [] OTHER              -> default

FallbackResources(ageRange) ==
    << Item(Named("title", "Khan Academy", "skillLevel", skillLevelByAge(ageRange, "Beginner to Advanced")),
            "learning_resource", "website"),
       Item(Named("title", "Career Exploration Guide", "skillLevel", skillLevelByAge(ageRange, "Beginner")),
            "learning_resource", "ebook") >>

(* the body shared by the three generators: a failed call or a failed
   JSON.parse goes to the catch block (the fallback list); otherwise the
   parsed value is normalised to a list and every element is tagged *)
GenerateList(r, key, type, isResource, fallback) ==
    IF ~r.ok THEN fallback
    ELSE LET parsed == JSONparse(extractJson(r.text)) IN
         IF ~parsed.ok THEN fallback
         ELSE MapItems(NormalizeList(parsed.val, key), type, isResource)

generateEducationalGames(ageRange, r) ==
    GenerateList(r, "games", "educational_game", FALSE, FallbackGames(ageRange))

generateBookRecommendations(ageRange, r) ==
    GenerateList(r, "books", "educational_book", FALSE, FallbackBooks(ageRange))

generateResourceRecommendations(ageRange, r) ==
    GenerateList(r, "resources", "learning_resource", TRUE, FallbackResources(ageRange))

----------------------------------------------------------------------------
(* getVerifiedEducationalContent *)

Content(status, videos, games, books, resources) ==
    [status |-> status, videos |-> videos, games |-> games,
     books |-> books, resources |-> resources]

NoContent == Content("none", <<>>, <<>>, <<>>, <<>>)

(* the value of the catch block *)
EmptyContent == Content("done", <<>>, <<>>, <<>>, <<>>)

(* the analysis argument; hasTop is false when topCareerAreas is missing *)
Analysis(hasTop, topCareerAreas, ageRange) ==
    [hasTop |-> hasTop, topCareerAreas |-> topCareerAreas, ageRange |-> ageRange]

(* the video search: a rejected call, or the list it resolves to *)
VideoRejects == [ok |-> FALSE, videos |-> <<>>]
VideoResolves(videos) == [ok |-> TRUE, videos |-> videos]

(* what a caller sees when an operation throws instead of returning *)
ContentError == Content("error", <<>>, <<>>, <<>>, <<>>)

(* mutant of getVerifiedEducationalContent: no catch block around the body *)
getVerifiedEducationalContentNoCatch(analysis, video, rGames, rBooks, rResources) ==
    IF ~analysis.hasTop THEN ContentError
    ELSE IF ~video.ok THEN ContentError
    ELSE Content("done",
                 video.videos,
                 generateEducationalGames(analysis.ageRange, rGames),
                 generateBookRecommendations(analysis.ageRange, rBooks),
                 generateResourceRecommendations(analysis.ageRange, rResources))

getVerifiedEducationalContent(analysis, video, rGames, rBooks, rResources) ==
    IF ~analysis.hasTop THEN EmptyContent
    ELSE IF ~video.ok THEN EmptyContent
    ELSE Content("done",
                 video.videos,
                 generateEducationalGames(analysis.ageRange, rGames),
                 generateBookRecommendations(analysis.ageRange, rBooks),
                 generateResourceRecommendations(analysis.ageRange, rResources))

(* the arguments of one call into the pipeline and the providers' behaviour *)
Call(call, analysis, video, rGames, rBooks, rResources) ==
    [call |-> call, analysis |-> analysis, video |-> video,
     games |-> rGames, books |-> rBooks, resources |-> rResources]

IdleCall == Call("idle", Analysis(FALSE, <<>>, ""), VideoRejects, Failure, Failure, Failure)

----------------------------------------------------------------------------
(* The quiz store (CareerQuiz documents) *)

Users == {"u1", "u2"}

(* submittedAt: an absent date, an earlier date, or new Date() *)
NoDate == "none"
Earlier == "earlier"
Now == "now"

(* a CareerQuiz document; version is the version key the schema leaves
   switched on *)
Rec(id, user, ageRange, questions, answers, submitted, completed, submittedAt, analysis, createdAt) ==
    [id |-> id, user |-> user, ageRange |-> ageRange, questions |-> questions,
     answers |-> answers, submitted |-> submitted, completed |-> completed,
     submittedAt |-> submittedAt, analysis |-> analysis, createdAt |-> createdAt,
     version |-> 0]

(* null: no document *)
NoDoc == Rec(<<>>, "", "", <<>>, <<>>, FALSE, FALSE, NoDate, NoResult, 0)

Exists(doc) == doc.id # <<>>

HasAnalysis(doc) == doc.analysis.status # "none"

RECURSIVE Bits(_, _)
Bits(n, len) == IF len = 0 THEN <<>> ELSE Bits(n \div 2, len - 1) \o <<n % 2>>

(* the _id of the i-th document created, as a string of IdLen characters *)
IdOf(i) == Bits(i, IdLen)

(* quizIdStr.includes(quizId) *)
Includes(idStr, quizId) ==
    \E i \in 1..(Len(idStr) - Len(quizId) + 1) :
        SubSeq(idStr, i, i + Len(quizId) - 1) = quizId

(* the positions of the documents a query filter selects *)
ByIdAndUser(st, quizId, userId) ==
    {i \in 1..Len(st) : st[i].id = quizId /\ st[i].user = userId}

ById(st, quizId) == {i \in 1..Len(st) : st[i].id = quizId}

ByUserSubmitted(st, userId) == {i \in 1..Len(st) : st[i].user = userId /\ st[i].submitted}

ByUserCompleted(st, userId) == {i \in 1..Len(st) : st[i].user = userId /\ st[i].completed}

ByUser(st, userId) == {i \in 1..Len(st) : st[i].user = userId}

(* findOne(filter): a selected document, or null *)
FindOne(st, selected) ==
    IF selected = {} THEN NoDoc
    ELSE st[CHOOSE i \in selected : TRUE]

(* findOne(filter).sort({createdAt: -1}) *)
FindLatest(st, selected) ==
    IF selected = {} THEN NoDoc
    ELSE st[CHOOSE i \in selected :
                \A j \in selected : st[j].createdAt <= st[i].createdAt]

(* mutant of ScanForId: the window is one record short *)
ScanForIdShortWindow(st, quizId) ==
    LET window == SubSeq(st, 1, Min(ScanLimit - 1, Len(st)))
        hits == {i \in 1..Len(window) : Includes(window[i].id, quizId)}
    IN IF hits = {} THEN NoDoc ELSE window[SetMin(hits)]

(* mutant of ScanForId: the last match of the window wins *)
ScanForIdLast(st, quizId) ==
    LET window == SubSeq(st, 1, Min(ScanLimit, Len(st)))
        hits == {i \in 1..Len(window) : Includes(window[i].id, quizId)}
    IN IF hits = {} THEN NoDoc ELSE window[SetMax(hits)]

(* find().limit(100), then the first document whose id includes quizId *)
ScanForId(st, quizId) ==
    LET window == SubSeq(st, 1, Min(ScanLimit, Len(st)))
        hits == {i \in 1..Len(window) : Includes(window[i].id, quizId)}
    IN IF hits = {} THEN NoDoc ELSE window[SetMin(hits)]

(* the save of a document whose answers array was replaced carries the
   version the document was loaded with in its filter, and matches nothing
   when the stored version has moved on *)
VersionConflict(st, doc, paths) ==
    "answers" \in paths /\ \E i \in 1..Len(st) : st[i].id = doc.id /\ st[i].version # doc.version

(* doc.save(): the modified paths are written to the stored document *)
Save(st, doc, paths) ==
    [i \in 1..Len(st) |->
        IF st[i].id # doc.id THEN st[i]
        ELSE [f \in DOMAIN st[i] |-> IF f \in paths THEN doc[f] ELSE st[i][f]]]

FlagPaths == {"submitted", "completed", "submittedAt"}

(* mutant of MarkSubmitted: completed is left as it was *)
MarkOnlySubmitted(doc) ==
    [doc EXCEPT !.submitted = TRUE,
                !.submittedAt = IF doc.submittedAt = NoDate THEN Now ELSE doc.submittedAt]

(* mutant of MarkSubmitted: submittedAt is always set anew *)
MarkSubmittedAnew(doc) ==
    [doc EXCEPT !.submitted = TRUE, !.completed = TRUE, !.submittedAt = Now]

(* submitted = true; completed = true; submittedAt = submittedAt || new Date() *)
MarkSubmitted(doc) ==
    [doc EXCEPT !.submitted = TRUE, !.completed = TRUE,
                !.submittedAt = IF doc.submittedAt = NoDate THEN Now ELSE doc.submittedAt]

Resolution(doc, how, st, repaired) ==
    [doc |-> doc, how |-> how, store |-> st, repaired |-> repaired]

(* mutant of LatestForUser: completed is tried before submitted *)
LatestForUserCompletedFirst(st, userId) ==
    LET bySubmitted == FindLatest(st, ByUserSubmitted(st, userId))
        byCompleted == FindLatest(st, ByUserCompleted(st, userId))
        anyQuiz     == FindLatest(st, ByUser(st, userId))
    IN IF Exists(byCompleted) THEN Resolution(byCompleted, "completed", st, FALSE)
       ELSE IF Exists(bySubmitted) THEN Resolution(bySubmitted, "submitted", st, FALSE)
       ELSE IF Exists(anyQuiz)
            THEN IF ~anyQuiz.submitted /\ ~anyQuiz.completed /\ anyQuiz.answers # <<>>
                 THEN Resolution(MarkSubmitted(anyQuiz), "any",
                                 Save(st, MarkSubmitted(anyQuiz), FlagPaths), TRUE)
                 ELSE Resolution(anyQuiz, "any", st, FALSE)
            ELSE Resolution(NoDoc, "none", st, FALSE)

(* the three user-only fallbacks of getLatestQuiz; only the last one
   repairs the flags, and only when both are false *)
LatestForUser(st, userId) ==
    LET bySubmitted == FindLatest(st, ByUserSubmitted(st, userId))
        byCompleted == FindLatest(st, ByUserCompleted(st, userId))
        anyQuiz     == FindLatest(st, ByUser(st, userId))
    IN IF Exists(bySubmitted) THEN Resolution(bySubmitted, "submitted", st, FALSE)
       ELSE IF Exists(byCompleted) THEN Resolution(byCompleted, "completed", st, FALSE)
       ELSE IF Exists(anyQuiz)
            THEN IF ~anyQuiz.submitted /\ ~anyQuiz.completed /\ anyQuiz.answers # <<>>
                 THEN Resolution(MarkSubmitted(anyQuiz), "any",
                                 Save(st, MarkSubmitted(anyQuiz), FlagPaths), TRUE)
                 ELSE Resolution(anyQuiz, "any", st, FALSE)
            ELSE Resolution(NoDoc, "none", st, FALSE)

(* mutant of getLatestQuiz: a record found by id belongs to the user *)
getLatestQuizOwnedOnly(st, userId, quizId) ==
    IF quizId # <<>>
    THEN LET exact  == FindOne(st, ByIdAndUser(st, quizId, userId))
             byId   == FindOne(st, ById(st, quizId))
             similar == ScanForId(st, quizId)
         IN IF Exists(exact) THEN Resolution(exact, "idAndUser", st, FALSE)
            ELSE IF Exists(byId) /\ byId.user = userId
                 THEN Resolution(byId, "idOnly", st, FALSE)
            ELSE IF Exists(similar) /\ similar.user = userId
                 THEN Resolution(similar, "substring", st, FALSE)
            ELSE LatestForUser(st, userId)
    ELSE LatestForUser(st, userId)

(* getLatestQuiz(userId, quizId); an empty quizId is no quizId *)
getLatestQuiz(st, userId, quizId) ==
    IF quizId # <<>>
    THEN LET exact  == FindOne(st, ByIdAndUser(st, quizId, userId))
             byId   == FindOne(st, ById(st, quizId))
             similar == ScanForId(st, quizId)
         IN IF Exists(exact) THEN Resolution(exact, "idAndUser", st, FALSE)
            ELSE IF Exists(byId) THEN Resolution(byId, "idOnly", st, FALSE)
            ELSE IF Exists(similar) THEN Resolution(similar, "substring", st, FALSE)
            ELSE LatestForUser(st, userId)
    ELSE LatestForUser(st, userId)

(* the requests in flight and the state each one keeps *)
Procs == {"p1", "p2"}

Op(pc, kind, userId, quizId, doc, how, saves, repairSaves, outcome, bundle) ==
    [pc |-> pc, kind |-> kind, userId |-> userId, quizId |-> quizId, doc |-> doc,
     how |-> how, saves |-> saves, repairSaves |-> repairSaves,
     outcome |-> outcome, bundle |-> bundle,
     userSvc |-> "unused", token |-> FALSE, withUser |-> FALSE,
     reward |-> "none", paths |-> {}]

IdleOp == Op("idle", "none", "", <<>>, NoDoc, "none", 0, 0, "none", NoContent)

----------------------------------------------------------------------------
(* Inputs of analyzeQuizAnswers *)

DefaultRow == <<0, 1, 2, 3>>

(* the shapes of question the engine meets: without a scoring matrix, with
   the two-area matrix, with the default matrix of loadQuizData, with
   uniform rows (one area configured only from 9-12 on, one never), and
   with a row shorter than the option list *)
QuestionKinds ==
    { NoScoring,
      Scoring(<<"Art", "Science">>, << <<3, 2, 1, 0>>, <<0, 1, 2, 3>> >>),
      Scoring(BaseAreas, <<DefaultRow, DefaultRow, DefaultRow, DefaultRow, DefaultRow>>),
      Scoring(<<"Art", "Leadership", "Music">>, << <<2, 2, 2, 2>>, <<1, 1, 1, 1>>, <<3, 3, 3, 3>> >>),
      Scoring(<<"Science", "Nature">>, << <<2, 1>>, <<0, 0, 0, 5>> >>) }

InputRanges == {"6-8", "9-12", "6-12"}

AnswerValues == 0..MaxAnswerValue

Quiz(ageRange, questions, answers) ==
    [ageRange |-> ageRange, questions |-> questions, answers |-> answers]

ArtScience == Scoring(<<"Art", "Science">>, << <<3, 2, 1, 0>>, <<0, 1, 2, 3>> >>)

ScenarioQuiz ==
    Quiz("6-8", <<ArtScience, ArtScience, ArtScience, ArtScience, ArtScience>>, <<0, 0, 3, 3, 1>>)

SampleQuizzes ==
    { ScenarioQuiz,
      Quiz("9-12", <<ArtScience, NoScoring>>, <<1>>),
      Quiz("6-12", <<ArtScience>>, <<2>>) }

TextAlphabet ==
    Fences \cup {"{", "}", "[", "]", "str", "prose", "explanation:", "games:"}

NarrativeText == <<"{", "explanation:", "str", "skills:", "[", "str", "]", "}">>

SampleTexts ==
    { NarrativeText,
      <<"fence_json">> \o NarrativeText \o <<"fence">>,
      <<"prose">> \o NarrativeText \o <<"prose">>,
      <<"prose", "prose", "prose", "prose", "prose">>,
      <<"fence_json", "{", "explanation:", "str", "prose", "}", "fence">> }

Texts == SeqsUpTo(TextAlphabet, MaxTextLen) \cup SampleTexts

InitAnalyze ==
    /\ cin = IdleCall
    /\ cout = NoContent
    /\ store = <<>>
    /\ op = [p \in Procs |-> IdleOp]
    /\ \/ /\ quiz \in { Quiz(r, qs, as) : r \in InputRanges,
                                          qs \in SeqsUpTo(QuestionKinds, MaxQuestions),
                                          as \in SeqsUpTo(AnswerValues, MaxAnswers) }
          /\ reply \in {Failure, Reply(NarrativeText)}
       \/ /\ quiz \in SampleQuizzes
          /\ reply \in {Failure} \cup {Reply(t) : t \in Texts}
    /\ result = NoResult
    /\ reply2 = Failure
    /\ result2 = NoResult

(* one call of analyzeQuizAnswers(quiz) *)
AnalyzeQuizAnswers ==
    /\ result.status = "none"
    /\ result' = analyzeQuizAnswers(quiz, reply)
    /\ UNCHANGED <<quiz, reply, reply2, result2>>
    /\ UNCHANGED <<cvars, svars>>

NextAnalyze == AnalyzeQuizAnswers

(* Two runs of analyzeQuizAnswers on one quiz, the text generator behaving
   independently in each *)

PairKinds ==
    { NoScoring, ArtScience,
      Scoring(<<"Nature", "Music">>, << <<1, 1, 1, 1>>, <<3, 3, 3, 3>> >>) }

PairQuizzes ==
    { Quiz(r, qs, as) : r \in {"6-8", "6-12"},
                        qs \in SeqsUpTo(PairKinds, MaxQuestions),
                        as \in SeqsUpTo({0, NumOptions - 1}, MaxAnswers) }

PairReplies == {Failure} \cup {Reply(t) : t \in SampleTexts \cup {<<"[", "str", "]">>}}

InitTwoRuns ==
    /\ cin = IdleCall
    /\ cout = NoContent
    /\ store = <<>>
    /\ op = [p \in Procs |-> IdleOp]
    /\ quiz \in PairQuizzes
    /\ reply \in PairReplies
    /\ reply2 \in PairReplies
    /\ result = NoResult
    /\ result2 = NoResult

(* the second call of analyzeQuizAnswers(quiz) *)
AnalyzeQuizAnswersAgain ==
    /\ result2.status = "none"
    /\ result2' = analyzeQuizAnswers(quiz, reply2)
    /\ UNCHANGED <<quiz, reply, result, reply2>>
    /\ UNCHANGED <<cvars, svars>>

NextTwoRuns == AnalyzeQuizAnswers \/ AnalyzeQuizAnswersAgain

----------------------------------------------------------------------------
(* Inputs of the content pipeline *)

OneItem == <<"{", "name:", "str", "}">>

ContentTexts ==
    { <<"[">> \o OneItem \o OneItem \o <<"]">>,
      <<"{", "games:", "[">> \o OneItem \o <<"]", "}">>,
      <<"{", "books:", "[">> \o OneItem \o <<"]", "}">>,
      <<"{", "resources:", "[">> \o OneItem \o <<"]", "}">>,
      OneItem,
      <<"fence_json", "[">> \o OneItem \o <<"]", "fence">>,
      <<"prose", "prose">> }

ContentReplies == {Failure} \cup {Reply(t) : t \in ContentTexts}

ContentAnalyses ==
    { Analysis(TRUE, <<"Art", "Science", "Technology">>, "6-8"),
      Analysis(TRUE, <<"Education", "Art", "Technology">>, "6-12"),
      Analysis(FALSE, <<>>, "16-18") }

VideoOutcomes == {VideoRejects, VideoResolves(<<>>), VideoResolves(<<"video1", "video2">>)}

ContentAges == {"6-8", "16-18", "6-12"}

WideReplies == {Failure} \cup {Reply(t) : t \in Texts \cup ContentTexts}

SingleCall(call, ageRange, r) ==
    Call(call, Analysis(TRUE, <<"Art">>, ageRange), VideoRejects,
         IF call = "games" THEN r ELSE Failure,
         IF call = "books" THEN r ELSE Failure,
         IF call = "resources" THEN r ELSE Failure)

InitContent ==
    /\ quiz = Quiz("6-8", <<>>, <<>>)
    /\ reply = Failure
    /\ result = NoResult
    /\ reply2 = Failure
    /\ result2 = NoResult
    /\ cin \in { Call("content", a, v, g, b, r) :
                     a \in ContentAnalyses, v \in VideoOutcomes,
                     g \in ContentReplies, b \in ContentReplies, r \in ContentReplies }
             \cup { SingleCall(c, age, r) :
                     c \in {"games", "books", "resources"}, age \in ContentAges, r \in WideReplies }
    /\ cout = NoContent
    /\ store = <<>>
    /\ op = [p \in Procs |-> IdleOp]

(* one call of getVerifiedEducationalContent(analysis) *)
GetVerifiedEducationalContent ==
    /\ cin.call = "content" /\ cout.status = "none"
    /\ cout' = getVerifiedEducationalContent(cin.analysis, cin.video, cin.games, cin.books, cin.resources)
    /\ UNCHANGED <<cin, avars, svars>>

(* one call of generateEducationalGames(careerAreas, ageRange) *)
GenerateEducationalGames ==
    /\ cin.call = "games" /\ cout.status = "none"
    /\ cout' = Content("done", <<>>, generateEducationalGames(cin.analysis.ageRange, cin.games), <<>>, <<>>)
    /\ UNCHANGED <<cin, avars, svars>>

(* one call of generateBookRecommendations(careerAreas, ageRange) *)
GenerateBookRecommendations ==
    /\ cin.call = "books" /\ cout.status = "none"
    /\ cout' = Content("done", <<>>, <<>>, generateBookRecommendations(cin.analysis.ageRange, cin.books), <<>>)
    /\ UNCHANGED <<cin, avars, svars>>

(* one call of generateResourceRecommendations(careerAreas, ageRange) *)
GenerateResourceRecommendations ==
    /\ cin.call = "resources" /\ cout.status = "none"
    /\ cout' = Content("done", <<>>, <<>>, <<>>, generateResourceRecommendations(cin.analysis.ageRange, cin.resources))
    /\ UNCHANGED <<cin, avars, svars>>

NextContent ==
    \/ GetVerifiedEducationalContent
    \/ GenerateEducationalGames
    \/ GenerateBookRecommendations
    \/ GenerateResourceRecommendations

----------------------------------------------------------------------------
(* Requests against the store.  A request runs one operation; its awaits
   on the store are the steps between which other requests may run. *)

QuizIdInputs == SeqsUpTo({0, 1}, IdLen)

FullIds == [1..IdLen -> {0, 1}]

MaxQuizzes == ScanLimit + 1

SampleAnswers == <<1, 2>>

StoreQuestions == <<ArtScience, ArtScience>>

SubmitInputs == {<<>>, <<0, 3>>, SampleAnswers}

AsQuiz(doc) == Quiz(doc.ageRange, doc.questions, doc.answers)

LazyReplies == {Failure, Reply(NarrativeText)}

ArrayText == <<"[">> \o OneItem \o <<"]">>

(* the state of a request after getLatestQuiz has returned *)
Resolved(o, kind, userId, quizId, res, pc) ==
    [o EXCEPT !.pc = pc, !.kind = kind, !.userId = userId, !.quizId = quizId,
              !.doc = res.doc, !.how = res.how,
              !.saves = IF res.repaired THEN 1 ELSE 0,
              !.repairSaves = IF res.repaired THEN 1 ELSE 0]

(* generateEducationalContent, up to the return of getLatestQuiz; with a
   token the user is first fetched from the main service, and a failure of
   that call ends the operation with the error *)
StartGenerateEducationalContent(p) ==
    /\ op[p].pc = "idle"
    /\ \E userId \in Users, quizId \in QuizIdInputs, userSvc \in {"notoken", "ok", "fails"} :
          IF userSvc = "fails"
          THEN /\ op' = [op EXCEPT ![p] = [@ EXCEPT !.pc = "done", !.kind = "content",
                                                   !.userId = userId, !.quizId = quizId,
                                                   !.userSvc = userSvc, !.token = TRUE,
                                                   !.outcome = "error",
                                                   !.bundle = ContentError]]
               /\ UNCHANGED store
          ELSE LET res == getLatestQuiz(store, userId, quizId) IN
               /\ store' = res.store
               /\ op' = [op EXCEPT ![p] =
                           [Resolved(@, "content", userId, quizId, res, "callerRepair")
                               EXCEPT !.userSvc = userSvc, !.token = (userSvc # "notoken")]]
    /\ UNCHANGED <<avars, cvars>>

(* getCareerRecommendations, up to the return of getLatestQuiz; userSvc is
   what the main service will do if the fallback branch asks it for the
   user's age *)
StartGetCareerRecommendations(p) ==
    /\ op[p].pc = "idle"
    /\ \E userId \in Users, quizId \in QuizIdInputs, userSvc \in {"notoken", "ok", "fails"} :
          LET res == getLatestQuiz(store, userId, quizId) IN
          /\ store' = res.store
          /\ op' = [op EXCEPT ![p] =
                      [Resolved(@, "careers", userId, quizId, res, "callerRepair")
                          EXCEPT !.userSvc = userSvc, !.token = (userSvc # "notoken")]]
    /\ UNCHANGED <<avars, cvars>>

(* getQuizAnalysis: the whole operation *)
GetQuizAnalysis(p) ==
    /\ op[p].pc = "idle"
    /\ \E userId \in Users, quizId \in QuizIdInputs :
          LET res == getLatestQuiz(store, userId, quizId) IN
          /\ store' = res.store
          /\ op' = [op EXCEPT ![p] =
                      [Resolved(@, "analysis", userId, quizId, res, "done")
                          EXCEPT !.outcome = IF Exists(res.doc) THEN "returned" ELSE "error"]]
    /\ UNCHANGED <<avars, cvars>>

(* mutant of NeedsRepair: the flags are not looked at *)
NeedsRepairAnswered(doc) ==
    Exists(doc) /\ doc.answers # <<>>

NeedsRepair(doc) ==
    Exists(doc) /\ (~doc.submitted \/ ~doc.completed) /\ doc.answers # <<>>

(* the caller's own flag repair after getLatestQuiz *)
CallerRepair(p) ==
    /\ op[p].pc = "callerRepair"
    /\ IF NeedsRepair(op[p].doc)
       THEN /\ store' = Save(store, MarkSubmitted(op[p].doc), FlagPaths)
            /\ op' = [op EXCEPT ![p] = [@ EXCEPT !.pc = "lazyAnalysis",
                                                !.doc = MarkSubmitted(@),
                                                !.saves = @ + 1,
                                                !.repairSaves = @ + 1]]
       ELSE /\ UNCHANGED store
            /\ op' = [op EXCEPT ![p] = [@ EXCEPT !.pc = "lazyAnalysis"]]
    /\ UNCHANGED <<avars, cvars>>

NeedsAnalysis(doc) ==
    Exists(doc) /\ (doc.submitted \/ doc.completed) /\ ~HasAnalysis(doc) /\ doc.answers # <<>>

(* the lazy analysis: analyzeQuizAnswers on the document, saved when it
   succeeds, logged and dropped when it fails *)
LazyAnalysis(p) ==
    /\ op[p].pc = "lazyAnalysis"
    /\ IF NeedsAnalysis(op[p].doc)
       THEN \E r \in LazyReplies :
              LET a == analyzeQuizAnswers(AsQuiz(op[p].doc), r)
                  d == [op[p].doc EXCEPT !.analysis = a]
              IN IF a.status = "ok"
                 THEN /\ store' = Save(store, d, {"analysis"})
                      /\ op' = [op EXCEPT ![p] = [@ EXCEPT !.pc = "finish", !.doc = d,
                                                          !.saves = @ + 1]]
                 ELSE /\ UNCHANGED store
                      /\ op' = [op EXCEPT ![p] = [@ EXCEPT !.pc = "finish"]]
       ELSE /\ UNCHANGED store
            /\ op' = [op EXCEPT ![p] = [@ EXCEPT !.pc = "finish"]]
    /\ UNCHANGED <<avars, cvars>>

Usable(doc) == Exists(doc) /\ (doc.submitted \/ doc.completed) /\ HasAnalysis(doc)

(* the fallback analysis of generateEducationalContent *)
FallbackAnalysis == Analysis(TRUE, <<"Education", "Art", "Technology">>, "6-12")

(* the age range of the fallback: from the age of the fetched user (a ten
   year old here), the default otherwise *)
FallbackAnalysisFor(userSvc) ==
    IF userSvc = "ok" THEN [FallbackAnalysis EXCEPT !.ageRange = "9-12"]
    ELSE FallbackAnalysis

(* the last part of generateEducationalContent / getCareerRecommendations:
   generic content marked as fallback when the quiz is not usable, content
   from the quiz analysis otherwise *)
Finish(p) ==
    /\ op[p].pc = "finish"
    /\ \E video \in {VideoRejects, VideoResolves(<<"video1", "video2">>)},
          r \in {Failure, Reply(ArrayText)} :
          LET a == IF Usable(op[p].doc)
                   THEN Analysis(TRUE, op[p].doc.analysis.topCareerAreas, op[p].doc.analysis.ageRange)
                   ELSE FallbackAnalysisFor(op[p].userSvc)
          IN op' = [op EXCEPT ![p] =
                      [@ EXCEPT !.pc = "done",
                                !.outcome = IF Usable(op[p].doc) THEN "real" ELSE "fallback",
                                !.bundle = IF op[p].kind = "content"
                                           THEN getVerifiedEducationalContent(a, video, r, r, r)
                                           ELSE NoContent]]
    /\ UNCHANGED <<store, avars, cvars>>

(* generateCareerQuiz: a new document with no answers and the flags false *)
GenerateCareerQuiz(p) ==
    /\ op[p].pc = "idle"
    /\ Len(store) < MaxQuizzes
    /\ \E user \in Users :
          LET d == Rec(IdOf(Len(store) + 1), user, "6-8", StoreQuestions, <<>>,
                       FALSE, FALSE, NoDate, NoResult, Len(store) + 1)
          IN /\ store' = Append(store, d)
             /\ op' = [op EXCEPT ![p] = [@ EXCEPT !.pc = "done", !.kind = "create",
                                                 !.userId = user, !.doc = d,
                                                 !.saves = 1, !.outcome = "created"]]
    /\ UNCHANGED <<avars, cvars>>

(* the paths submitQuizAnswers has modified on the loaded document *)
ModifiedPaths(loaded, d) ==
    {f \in {"answers", "submitted", "completed", "analysis"} : d[f] # loaded[f]}
        \cup {"submittedAt"}

(* mutant of SubmitFind: the document is saved before it is analysed *)
SubmitFindSavesEarly(p) ==
    /\ op[p].pc = "idle"
    /\ \E quizId \in FullIds, answers \in SubmitInputs, r \in LazyReplies :
          LET found == FindOne(store, ById(store, quizId))
              d == [found EXCEPT !.answers = answers, !.submitted = TRUE,
                                 !.completed = TRUE, !.submittedAt = Now]
              a == analyzeQuizAnswers(AsQuiz(d), r)
          IN /\ store' = IF Exists(found) THEN Save(store, d, ModifiedPaths(found, d))
                         ELSE store
             /\ op' = [op EXCEPT ![p] =
                 IF ~Exists(found)
                 THEN [@ EXCEPT !.pc = "done", !.kind = "submit", !.quizId = quizId,
                                !.outcome = "notfound"]
                 ELSE IF a.status # "ok"
                 THEN [@ EXCEPT !.pc = "done", !.kind = "submit", !.quizId = quizId,
                                !.outcome = "error"]
                 ELSE [@ EXCEPT !.pc = "submitSave", !.kind = "submit", !.quizId = quizId,
                                !.doc = [d EXCEPT !.analysis = a],
                                !.paths = ModifiedPaths(found, [d EXCEPT !.analysis = a])]]
    /\ UNCHANGED <<avars, cvars>>

(* submitQuizAnswers up to the save: findById, the answers and flags set on
   the document, the analysis computed from it.  (The user lookup made with
   a token and a userId only fills the userDetails of the response, and its
   failure is caught.) *)
SubmitFind(p) ==
    /\ op[p].pc = "idle"
    /\ \E quizId \in FullIds, answers \in SubmitInputs, r \in LazyReplies :
          LET found == FindOne(store, ById(store, quizId))
              d == [found EXCEPT !.answers = answers, !.submitted = TRUE,
                                 !.completed = TRUE, !.submittedAt = Now]
              a == analyzeQuizAnswers(AsQuiz(d), r)
          IN op' = [op EXCEPT ![p] =
                 IF ~Exists(found)
                 THEN [@ EXCEPT !.pc = "done", !.kind = "submit", !.quizId = quizId,
                                !.outcome = "notfound"]
                 ELSE IF a.status # "ok"
                 THEN [@ EXCEPT !.pc = "done", !.kind = "submit", !.quizId = quizId,
                                !.outcome = "error"]
                 ELSE [@ EXCEPT !.pc = "submitSave", !.kind = "submit", !.quizId = quizId,
                                !.doc = [d EXCEPT !.analysis = a],
                                !.paths = ModifiedPaths(found, [d EXCEPT !.analysis = a])]]
    /\ UNCHANGED <<store, avars, cvars>>

(* mutant of SaveSubmission: the version filter is not sent *)
SaveSubmissionUnversioned(st, doc, paths) ==
    [saved |-> TRUE, store |-> Save(st, doc, paths)]

(* quiz.save() of submitQuizAnswers: rejected on a version conflict, the
   modified paths written and the version incremented otherwise *)
SaveSubmission(st, doc, paths) ==
    IF VersionConflict(st, doc, paths) THEN [saved |-> FALSE, store |-> st]
    ELSE IF "answers" \in paths
         THEN [saved |-> TRUE,
               store |-> Save(st, [doc EXCEPT !.version = @ + 1], paths \cup {"version"})]
         ELSE [saved |-> TRUE, store |-> Save(st, doc, paths)]

(* submitQuizAnswers: quiz.save(); a rejected save ends the operation with
   the error *)
SubmitSave(p) ==
    /\ op[p].pc = "submitSave"
    /\ LET w == SaveSubmission(store, op[p].doc, op[p].paths) IN
       /\ store' = w.store
       /\ op' = [op EXCEPT ![p] =
                   IF w.saved
                   THEN [@ EXCEPT !.pc = "submitAward", !.saves = @ + 1]
                   ELSE [@ EXCEPT !.pc = "done", !.outcome = "error"]]
    /\ UNCHANGED <<avars, cvars>>

(* awardQuizCompletionStars: the post to the main service, its failure
   logged and swallowed *)
awardQuizCompletionStars(posted) == IF posted THEN "awarded" ELSE "failed"

(* mutant of AwardStep: a failed award is rethrown *)
AwardStepPropagates(token, withUser, posted) ==
    IF token /\ withUser
    THEN [reward |-> awardQuizCompletionStars(posted), thrown |-> ~posted]
    ELSE [reward |-> "skipped", thrown |-> FALSE]

(* if (token && submitDto.userId) { try { await award } catch { log } } *)
AwardStep(token, withUser, posted) ==
    IF token /\ withUser
    THEN [reward |-> awardQuizCompletionStars(posted), thrown |-> FALSE]
    ELSE [reward |-> "skipped", thrown |-> FALSE]

(* submitQuizAnswers after the save: the award when a token and a userId
   came with the request, then the content bundle and the return *)
SubmitAward(p) ==
    /\ op[p].pc = "submitAward"
    /\ \E token \in BOOLEAN, withUser \in BOOLEAN, posted \in BOOLEAN,
          video \in {VideoRejects, VideoResolves(<<"video1", "video2">>)} :
          LET a == Analysis(TRUE, op[p].doc.analysis.topCareerAreas,
                            op[p].doc.analysis.ageRange)
              aw == AwardStep(token, withUser, posted)
          IN op' = [op EXCEPT ![p] =
                      IF aw.thrown
                      THEN [@ EXCEPT !.pc = "done", !.outcome = "error",
                                     !.token = token, !.withUser = withUser,
                                     !.reward = aw.reward]
                      ELSE [@ EXCEPT !.pc = "done", !.outcome = "submitted",
                                     !.token = token, !.withUser = withUser,
                                     !.reward = aw.reward,
                                     !.bundle = getVerifiedEducationalContent(
                                                    a, video, Failure, Failure, Failure)]]
    /\ UNCHANGED <<store, avars, cvars>>

----------------------------------------------------------------------------
(* The stores the service is started on: documents written by earlier
   requests and by the earlier revision of submitQuizAnswers, which set
   submitted without completed; flags and answers in every combination the
   resolver is written to repair *)

StoredAnalysis == analyzeQuizAnswers(Quiz("6-8", StoreQuestions, SampleAnswers), Failure)

Shape(answers, submitted, completed, submittedAt, analysis) ==
    [answers |-> answers, submitted |-> submitted, completed |-> completed,
     submittedAt |-> submittedAt, analysis |-> analysis]

Shapes ==
    { Shape(<<>>, FALSE, FALSE, NoDate, NoResult),
      Shape(SampleAnswers, TRUE, TRUE, Earlier, StoredAnalysis),
      Shape(SampleAnswers, TRUE, FALSE, Earlier, NoResult),
      Shape(SampleAnswers, FALSE, TRUE, NoDate, NoResult),
      Shape(SampleAnswers, FALSE, FALSE, NoDate, NoResult) }

InitialStores ==
    UNION { { [i \in 1..n |-> Rec(IdOf(i), us[i], "6-8", StoreQuestions, sh[i].answers,
                                  sh[i].submitted, sh[i].completed, sh[i].submittedAt,
                                  sh[i].analysis, i)] :
                us \in [1..n -> Users], sh \in [1..n -> Shapes] } : n \in 0..MaxQuizzes }

Init ==
    /\ quiz = Quiz("6-8", <<>>, <<>>)
    /\ reply = Failure
    /\ result = NoResult
    /\ reply2 = Failure
    /\ result2 = NoResult
    /\ cin = IdleCall
    /\ cout = NoContent
    /\ store \in InitialStores
    /\ op = [p \in Procs |-> IdleOp]

Request(p) ==
    \/ StartGenerateEducationalContent(p)
    \/ StartGetCareerRecommendations(p)
    \/ GetQuizAnalysis(p)
    \/ CallerRepair(p)
    \/ LazyAnalysis(p)
    \/ Finish(p)
    \/ GenerateCareerQuiz(p)
    \/ SubmitFind(p)
    \/ SubmitSave(p)
    \/ SubmitAward(p)

(* one request at a time *)
Next == Request("p1")

(* Concurrent submissions: one stored quiz, not yet answered or already
   submitted, or created for an age range that has questions but no scale,
   and two requests whose steps interleave at their awaits *)

SubmitStores ==
    { << Rec(IdOf(1), "u1", "6-8", StoreQuestions, sh.answers, sh.submitted,
             sh.completed, sh.submittedAt, sh.analysis, 1) >> :
         sh \in { Shape(<<>>, FALSE, FALSE, NoDate, NoResult),
                  Shape(SampleAnswers, TRUE, TRUE, Earlier, StoredAnalysis) } }
        \cup { << Rec(IdOf(1), "u1", "6-12", StoreQuestions, <<>>, FALSE, FALSE,
                      NoDate, NoResult, 1) >> }

InitSubmit ==
    /\ quiz = Quiz("6-8", <<>>, <<>>)
    /\ reply = Failure
    /\ result = NoResult
    /\ reply2 = Failure
    /\ result2 = NoResult
    /\ cin = IdleCall
    /\ cout = NoContent
    /\ store \in SubmitStores
    /\ op = [p \in Procs |-> IdleOp]

NextSubmit == \E p \in Procs : SubmitFind(p) \/ SubmitSave(p) \/ SubmitAward(p)

(* A submission interleaved with the recommendation requests on the same
   quiz: one stored quiz, with answers as the earlier revision wrote it
   (no analysis, a flag missing), or already submitted, or not yet
   answered; the requests name its owner and either its id or none,
   without a token *)

InitMixed ==
    /\ quiz = Quiz("6-8", <<>>, <<>>)
    /\ reply = Failure
    /\ result = NoResult
    /\ reply2 = Failure
    /\ result2 = NoResult
    /\ cin = IdleCall
    /\ cout = NoContent
    /\ store \in { << Rec(IdOf(1), "u1", "6-8", StoreQuestions, sh.answers, sh.submitted,
                           sh.completed, sh.submittedAt, sh.analysis, 1) >> :
                       sh \in { Shape(SampleAnswers, TRUE, FALSE, Earlier, NoResult),
                                Shape(SampleAnswers, FALSE, FALSE, NoDate, NoResult),
                                Shape(SampleAnswers, TRUE, TRUE, Earlier, StoredAnalysis),
                                Shape(<<>>, FALSE, FALSE, NoDate, NoResult) } }
    /\ op = [p \in Procs |-> IdleOp]

(* the arguments of the requests of this scenario *)
OnStoredQuiz(p) ==
    /\ op'[p].userId \in {"", "u1"}
    /\ op'[p].quizId \in {<<>>, IdOf(1)}
    /\ op'[p].userSvc \in {"unused", "notoken"}

NextMixed ==
    \E p \in Procs :
        \/ StartGenerateEducationalContent(p) /\ OnStoredQuiz(p)
        \/ StartGetCareerRecommendations(p) /\ OnStoredQuiz(p)
        \/ CallerRepair(p)
        \/ LazyAnalysis(p)
        \/ Finish(p)
        \/ SubmitFind(p) /\ OnStoredQuiz(p)
        \/ SubmitSave(p)
        \/ SubmitAward(p)

(* The same requests one after the other: a request starts and proceeds
   only while no other request is under way *)

Alone(p) == \A q \in Procs \ {p} : op[q].pc \in {"idle", "done"}

NextSequential ==
    \E p \in Procs :
        \/ Alone(p) /\ StartGenerateEducationalContent(p) /\ OnStoredQuiz(p)
        \/ Alone(p) /\ StartGetCareerRecommendations(p) /\ OnStoredQuiz(p)
        \/ Alone(p) /\ GetQuizAnalysis(p) /\ OnStoredQuiz(p)
        \/ Alone(p) /\ CallerRepair(p)
        \/ Alone(p) /\ LazyAnalysis(p)
        \/ Alone(p) /\ Finish(p)
        \/ Alone(p) /\ SubmitFind(p) /\ OnStoredQuiz(p)
        \/ Alone(p) /\ SubmitSave(p)
        \/ Alone(p) /\ SubmitAward(p)

vars == <<avars, cvars, svars>>

SpecAnalyze == InitAnalyze /\ [][NextAnalyze]_vars

SpecContent == InitContent /\ [][NextContent]_vars

SpecTwoRuns == InitTwoRuns /\ [][NextTwoRuns]_vars

Spec == Init /\ [][Next]_vars

SpecSubmit == InitSubmit /\ [][NextSubmit]_vars

SpecMixed == InitMixed /\ [][NextMixed]_vars

SpecSequential == InitMixed /\ [][NextSequential]_vars

----------------------------------------------------------------------------
(* extractCareerRecommendations / extractPersonalityTraits.  A text is a
   sequence of words; Occurs(w) is the set of lower-case keys that occur in
   the lower-cased word w, which is what toLowerCase().includes(key) and a
   /key/i test look for. *)

Occurs(w) ==
    CASE w = "Artist" -> {"art", "artist"}
      [] w = "ARTISTIC" -> {"art", "artist", "artistic"}
      [] w = "Scientist" -> {"scientist"}
      [] w = "Teacher" -> {"teacher"}
      [] w = "Engineer" -> {"engineer"}
      [] w = "Doctor" -> {"doctor"}
      [] w = "Writer" -> {"writer"}
      [] w = "Designer" -> {"design", "designer"}
      [] w = "Programmer" -> {"programmer"}
      [] w = "chef" -> {"chef"}
      [] w = "Chef" -> {"chef"}
      [] w = "Musician" -> {"music", "musician"}
      [] w = "Art" -> {"art"}
      [] w = "Science" -> {"science"}
      [] w = "Fine Arts" -> {"art"}
      [] w = "creative" -> {"creative"}
      [] w = "Curious" -> {"curious"}
      [] w = "very social" -> {"social"}
      [] OTHER -> {}

(* text.toLowerCase().includes(key) *)
Mentions(words, key) == \E i \in 1..Len(words) : key \in Occurs(words[i])

Entry(key, lower, emoji) == [key |-> key, lower |-> lower, emoji |-> emoji]

(* emojiMap of getCareerEmoji, in its key order *)
CareerEmojiMap ==
    << Entry("Art", "art", "palette"), Entry("Artist", "artist", "palette"),
       Entry("Science", "science", "microscope"), Entry("Scientist", "scientist", "microscope"),
       Entry("Technology", "technology", "laptop"), Entry("Programming", "programming", "laptop"),
       Entry("Programmer", "programmer", "laptop"), Entry("Nature", "nature", "seedling"),
       Entry("Communication", "communication", "speaking"), Entry("Leadership", "leadership", "crown"),
       Entry("Business", "business", "briefcase"), Entry("Healthcare", "healthcare", "hospital"),
       Entry("Doctor", "doctor", "doctor"), Entry("Education", "education", "books"),
       Entry("Teacher", "teacher", "teacher"), Entry("Engineering", "engineering", "gear"),
       Entry("Engineer", "engineer", "gear"), Entry("Writing", "writing", "pen"),
       Entry("Writer", "writer", "pen"), Entry("Design", "design", "palette"),
       Entry("Designer", "designer", "palette"), Entry("Culinary", "culinary", "cook"),
       Entry("Chef", "chef", "cook"), Entry("Music", "music", "note"),
       Entry("Musician", "musician", "note") >>

(* getCareerEmoji: the direct match, else the first key contained in the
   area, else the default *)
getCareerEmoji(area) ==
    LET direct  == {i \in 1..Len(CareerEmojiMap) : CareerEmojiMap[i].key = area}
        partial == {i \in 1..Len(CareerEmojiMap) : CareerEmojiMap[i].lower \in Occurs(area)}
    IN IF direct # {} THEN CareerEmojiMap[SetMin(direct)].emoji
       ELSE IF partial # {} THEN CareerEmojiMap[SetMin(partial)].emoji
       ELSE "star"

(* emojiMap of getTraitEmoji, in its key order *)
TraitEmojiMap ==
    << Entry("creative", "creative", "palette"), Entry("analytical", "analytical", "brain"),
       Entry("social", "social", "people"), Entry("practical", "practical", "wrench"),
       Entry("leadership", "leadership", "crown"), Entry("artistic", "artistic", "masks"),
       Entry("technical", "technical", "laptop"), Entry("helpful", "helpful", "handshake"),
       Entry("curious", "curious", "magnifier"), Entry("innovative", "innovative", "bulb"),
       Entry("organized", "organized", "clipboard"), Entry("adaptable", "adaptable", "cycle"),
       Entry("detail-oriented", "detail-oriented", "lens"),
       Entry("communicative", "communicative", "speaking"),
       Entry("collaborative", "collaborative", "hands"), Entry("persistent", "persistent", "muscle"),
       Entry("problem-solver", "problem-solver", "puzzle") >>

(* getTraitEmoji: the case-insensitive match, else the first key that
   contains the trait or is contained in it, else the default *)
getTraitEmoji(trait) ==
    LET (* trait.toLowerCase() *)
        lower   == CASE trait = "Curious" -> "curious"
                     [] trait = "ARTISTIC" -> "artistic"
                     [] trait = "Bold" -> "bold"
                     [] trait = "Kind" -> "kind"
                     [] OTHER -> trait
        (* the keys that contain the lower-cased trait *)
        within  == CASE trait = "art" -> {"artistic"}
                     [] trait = "" -> {TraitEmojiMap[i].lower : i \in 1..Len(TraitEmojiMap)}
                     [] OTHER -> {}
        direct  == {i \in 1..Len(TraitEmojiMap) : lower = TraitEmojiMap[i].lower}
        partial == {i \in 1..Len(TraitEmojiMap) :
                       \/ TraitEmojiMap[i].lower \in Occurs(trait)
                       \/ TraitEmojiMap[i].lower \in within}
    IN IF direct # {} THEN TraitEmojiMap[SetMin(direct)].emoji
       ELSE IF partial # {} THEN TraitEmojiMap[SetMin(partial)].emoji
       ELSE "sparkles"

(* the values an analysis and its fields can hold: a string, an array, an
   object, and the tags "invalid" (null, undefined, a number), "absent" and
   "null" *)
Str(s) == [t |-> "string", v |-> s]

Arr(elems) == [t |-> "array", v |-> elems]

(* an element already in the record format of the careers list *)
CareerRecord(career, emoji, matchPercentage) ==
    [t |-> "object", career |-> career, emoji |-> emoji, matchPercentage |-> matchPercentage]

TextValue(words) == [t |-> "string", words |-> words]

(* an analysis object: the two fields the extractors look at and the words
   of everything else in it *)
ObjectValue(topCareerAreas, personalityTraits, words) ==
    [t |-> "object", topCareerAreas |-> topCareerAreas,
     personalityTraits |-> personalityTraits, words |-> words]

Truthy(f) == f.t \in {"array", "object"} \/ (f.t = "string" /\ f.v # "")

RECURSIVE FieldWords(_)
(* the words JSON.stringify writes for a field *)
FieldWords(f) ==
    CASE f.t = "string" -> <<f.v>>
      [] f.t = "array" ->
            IF f.v = <<>> THEN <<>>
            ELSE FieldWords(Head(f.v)) \o FieldWords(Arr(Tail(f.v)))
      [] f.t = "object" ->
            IF "career" \in DOMAIN f THEN <<f.career>> ELSE <<f.trait>>
      [] OTHER -> <<>>

(* JSON.stringify(analysis) *)
Stringify(analysis) ==
    FieldWords(analysis.topCareerAreas) \o FieldWords(analysis.personalityTraits)
        \o analysis.words

(* Math.floor(Math.random() * 30) + 70 on the i-th draw of the stream *)
MatchPercentage(random, i) == 70 + random[((i - 1) % Len(random)) + 1]

Thrown == [thrown |-> TRUE, list |-> <<>>]

Returned(list) == [thrown |-> FALSE, list |-> list]

(* .slice(0, 5) *)
TopFive(list) == SubSeq(list, 1, Min(5, Len(list)))

(* careerPatterns, each with its toLowerCase() and the emoji at its index *)
CareerPatterns ==
    << Entry("Artist", "artist", "palette"), Entry("Scientist", "scientist", "microscope"),
       Entry("Teacher", "teacher", "teacher"), Entry("Engineer", "engineer", "gear"),
       Entry("Doctor", "doctor", "doctor"), Entry("Writer", "writer", "pen"),
       Entry("Designer", "designer", "palette"), Entry("Programmer", "programmer", "laptop"),
       Entry("Chef", "chef", "cook"), Entry("Musician", "musician", "note") >>

TraitPatterns ==
    <<"creative", "analytical", "social", "practical", "leadership",
      "artistic", "technical", "helpful", "curious", "innovative">>

RECURSIVE MapAreas(_, _, _)
(* analysis.topCareerAreas.map from position i on; in the callback
   null.career and the toLowerCase of a non-string raise a TypeError *)
MapAreas(areas, random, i) ==
    IF i > Len(areas) THEN Returned(<<>>)
    ELSE LET area  == areas[i]
             first == IF area.t = "null" THEN Thrown
                      ELSE IF area.t = "object"
                           THEN IF "career" \in DOMAIN area THEN Returned(<<area>>)
                                ELSE Thrown
                      ELSE Returned(<< CareerRecord(area.v, getCareerEmoji(area.v),
                                                    MatchPercentage(random, i)) >>)
             rest  == MapAreas(areas, random, i + 1)
         IN IF first.thrown \/ rest.thrown THEN Thrown
            ELSE Returned(first.list \o rest.list)

RECURSIVE ScanCareers(_, _, _, _)
(* careerPatterns.forEach: a record for every pattern the text contains *)
ScanCareers(words, random, index, draws) ==
    IF index > Len(CareerPatterns) THEN <<>>
    ELSE IF Mentions(words, CareerPatterns[index].lower)
         THEN << CareerRecord(CareerPatterns[index].key, CareerPatterns[index].emoji,
                              MatchPercentage(random, draws)) >>
                  \o ScanCareers(words, random, index + 1, draws + 1)
         ELSE ScanCareers(words, random, index + 1, draws)

(* the try block of extractCareerRecommendations *)
CareerRecommendationsBody(analysis, random) ==
    IF analysis.t = "object" /\ Truthy(analysis.topCareerAreas)
                             /\ analysis.topCareerAreas.t = "array"
    THEN LET careers == MapAreas(analysis.topCareerAreas.v, random, 1)
         IN IF careers.thrown THEN Thrown
            ELSE Returned(TopFive(careers.list))
    ELSE IF analysis.t = "string"
         THEN Returned(TopFive(ScanCareers(analysis.words, random, 1, 1)))
    ELSE IF analysis.t = "object"
         THEN Returned(TopFive(ScanCareers(Stringify(analysis), random, 1, 1)))
    ELSE Returned(<<>>)

(* mutant of extractCareerRecommendations: without the catch *)
extractCareerRecommendationsNoCatch(analysis, random) ==
    CareerRecommendationsBody(analysis, random)

(* extractCareerRecommendations: try { ... } catch { return [] } *)
extractCareerRecommendations(analysis, random) ==
    IF CareerRecommendationsBody(analysis, random).thrown THEN Returned(<<>>)
    ELSE CareerRecommendationsBody(analysis, random)

(* the record built for a trait given as a string *)
TraitEntry(trait) ==
    [t |-> "object", trait |-> trait, emoji |-> getTraitEmoji(trait),
     description |-> <<"Shows strong", trait, "tendencies">>]

RECURSIVE MapTraits(_, _)
(* analysis.personalityTraits.map from position i on *)
MapTraits(traits, i) ==
    IF i > Len(traits) THEN Returned(<<>>)
    ELSE LET trait == traits[i]
             first == IF trait.t = "null" THEN Thrown
                      ELSE IF trait.t = "object"
                           THEN IF "trait" \in DOMAIN trait THEN Returned(<<trait>>)
                                ELSE Thrown
                      ELSE Returned(<< TraitEntry(trait.v) >>)
             rest  == MapTraits(traits, i + 1)
         IN IF first.thrown \/ rest.thrown THEN Thrown
            ELSE Returned(first.list \o rest.list)

RECURSIVE ScanTraits(_, _)
(* traitPatterns.forEach: a record for every pattern that matches the text *)
ScanTraits(words, index) ==
    IF index > Len(TraitPatterns) THEN <<>>
    ELSE IF Mentions(words, TraitPatterns[index])
         THEN << TraitEntry(TraitPatterns[index]) >> \o ScanTraits(words, index + 1)
         ELSE ScanTraits(words, index + 1)

(* the try block of extractPersonalityTraits *)
PersonalityTraitsBody(analysis) ==
    IF analysis.t = "object" /\ Truthy(analysis.personalityTraits)
                             /\ analysis.personalityTraits.t = "array"
    THEN MapTraits(analysis.personalityTraits.v, 1)
    ELSE IF analysis.t = "string" THEN Returned(ScanTraits(analysis.words, 1))
    ELSE IF analysis.t = "object" THEN Returned(ScanTraits(Stringify(analysis), 1))
    ELSE Returned(<<>>)

(* extractPersonalityTraits: try { ... } catch { return [] } *)
extractPersonalityTraits(analysis) ==
    IF PersonalityTraitsBody(analysis).thrown THEN Returned(<<>>)
    ELSE PersonalityTraitsBody(analysis)

(* Inputs of the extractors *)

MaxAreas == 6

MaxTraits == 2

(* an invalid value; the texts: every short text over three words, the ten
   keywords in scan order and in reverse, six of them, three trait words;
   objects holding a list of areas or of traits (names, finished records,
   null); objects whose fields are absent or are not lists *)
ExtractAnalyses ==
    LET absent   == [t |-> "absent"]
        null     == [t |-> "null"]
        areas    == {Str("Art"), Str("Zoology"), CareerRecord("Pilot", "plane", 88), null}
        traits   == {Str("creative"), Str("Bold"),
                     [t |-> "object", trait |-> "Kind", emoji |-> "heart"], null}
        keywords == [i \in 1..Len(CareerPatterns) |-> CareerPatterns[i].key]
        reversed == [i \in 1..Len(keywords) |-> keywords[Len(keywords) + 1 - i]]
        texts    == SeqsUpTo({"chef", "ARTISTIC", "sunny"}, MaxTextLen)
                       \cup {keywords, reversed, SubSeq(keywords, 4, 9),
                             <<"Curious", "very social", "creative">>}
    IN {[t |-> "invalid"]}
          \cup {TextValue(w) : w \in texts}
          \cup {ObjectValue(Arr(l), absent, <<>>) : l \in SeqsUpTo(areas, MaxAreas)}
          \cup {ObjectValue(absent, Arr(l), <<>>) : l \in SeqsUpTo(traits, MaxTraits)}
          \cup {ObjectValue(f, g, w) : f \in {absent, Str(""), Str("Chef")},
                                       g \in {absent, Str("Curious"), Arr(<<Str("creative")>>)},
                                       w \in {<<>>, <<"Doctor", "sunny">>}}

ExtractCall(call, analysis, random) ==
    [call |-> call, analysis |-> analysis, random |-> random]

Outcome(r) == [status |-> IF r.thrown THEN "thrown" ELSE "returned", list |-> r.list]

(* extractCareerRecommendations with three streams of random draws,
   extractPersonalityTraits, and extractJson on every short text, the
   replies of the generators and bare arrays *)
InitExtract ==
    /\ quiz = Quiz("6-8", <<>>, <<>>)
    /\ reply = Failure
    /\ result = NoResult
    /\ reply2 = Failure
    /\ result2 = NoResult
    /\ \/ cin \in {ExtractCall("extractCareerRecommendations", a, r) :
                      a \in ExtractAnalyses, r \in {<<0>>, <<29>>, <<0, 29, 15>>}}
       \/ cin \in {ExtractCall("extractPersonalityTraits", a, <<0>>) : a \in ExtractAnalyses}
       \/ cin \in {ExtractCall("extractJson", TextValue(t), <<0>>) :
                      t \in Texts \cup ContentTexts
                               \cup {ArrayText, <<"[", "str", "]">>, <<"[", "]">>}}
    /\ cout = [status |-> "none", list |-> <<>>]
    /\ store = <<>>
    /\ op = [p \in Procs |-> IdleOp]

ExtractCareerRecommendations ==
    /\ cin.call = "extractCareerRecommendations"
    /\ cout.status = "none"
    /\ cout' = Outcome(extractCareerRecommendations(cin.analysis, cin.random))
    /\ UNCHANGED <<cin, avars, svars>>

ExtractPersonalityTraits ==
    /\ cin.call = "extractPersonalityTraits"
    /\ cout.status = "none"
    /\ cout' = Outcome(extractPersonalityTraits(cin.analysis))
    /\ UNCHANGED <<cin, avars, svars>>

(* one call of extractJson(text) *)
ExtractJson ==
    /\ cin.call = "extractJson"
    /\ cout.status = "none"
    /\ cout' = [status |-> "returned", list |-> <<>>,
                text |-> extractJson(cin.analysis.words)]
    /\ UNCHANGED <<cin, avars, svars>>

NextExtract == ExtractCareerRecommendations \/ ExtractPersonalityTraits \/ ExtractJson

SpecExtract == InitExtract /\ [][NextExtract]_vars

----------------------------------------------------------------------------
(* Claims about analyzeQuizAnswers (checked under SpecAnalyze) *)

IndexOf(seq, x) == CHOOSE i \in 1..Len(seq) : seq[i] = x

(* the points answer position i gives to an area, read off the quiz *)
PointsAt(q, area, i) ==
    IF i <= Len(q.questions) /\ q.questions[i].present /\ area \in Range(q.questions[i].areas)
    THEN LET row == q.questions[i].rows[IndexOf(q.questions[i].areas, area)]
             a == q.answers[i]
         IN IF a \in 0..(Len(row) - 1) THEN row[a + 1] ELSE 0
    ELSE 0

RECURSIVE SumPoints(_, _, _)
SumPoints(q, area, n) ==
    IF n = 0 THEN 0 ELSE SumPoints(q, area, n - 1) + PointsAt(q, area, n)

(* every question scores the area with one and the same value v, and every
   question has an answer that is an option of its row *)
UniformFor(q, area, v) ==
    /\ Len(q.answers) >= Len(q.questions)
    /\ \A i \in 1..Len(q.questions) :
          /\ q.questions[i].present
          /\ area \in Range(q.questions[i].areas)
          /\ LET row == q.questions[i].rows[IndexOf(q.questions[i].areas, area)]
             IN /\ \A j \in 1..Len(row) : row[j] = v
                /\ q.answers[i] \in 0..(Len(row) - 1)

(* C1: for every career area configured for the age range, the score is the
   sum over the answer positions i (question i exists and its matrix has the
   area) of scoring[area][answers[i]], 0 when the answer is outside the row;
   the scenario quiz gives Art = 8 and Science = 7; an area scored v at every
   option of every question scores v x (number of questions). *)
C1_ScoreIsSumOfPoints ==
    result.status = "ok" =>
        /\ \A area \in Range(loadAgeScales[quiz.ageRange]) :
              /\ result.scores[area] = SumPoints(quiz, area, Len(quiz.answers))
              /\ \A v \in 0..5 : UniformFor(quiz, area, v) =>
                                     result.scores[area] = v * Len(quiz.questions)
        /\ quiz = ScenarioQuiz => result.scores["Art"] = 8 /\ result.scores["Science"] = 7

C1_Witness ==
    /\ result.status = "ok"
    /\ quiz = ScenarioQuiz
    /\ result.scores["Art"] = 8

(* a second case of C1: a uniform row over two answered questions, with an
   answer outside another area's shorter row *)
C1_WitnessUniform ==
    /\ result.status = "ok"
    /\ Len(quiz.questions) = 2
    /\ UniformFor(quiz, "Art", 2)
    /\ result.scores["Art"] = 4

Before(top, careerAreas, scores, a, b) ==
    \/ scores[a] > scores[b]
    \/ scores[a] = scores[b] /\ IndexOf(careerAreas, a) < IndexOf(careerAreas, b)

(* C2: topCareerAreas holds min(3, number of configured areas) areas, in
   descending score, equal scores in the declaration order of the age
   range's career-area list, and no area left out ranks before one kept. *)
C2_TopThreeStableDescending ==
    result.status = "ok" =>
        LET careerAreas == loadAgeScales[quiz.ageRange]
            top == result.topCareerAreas
        IN /\ Len(top) = Min(3, Len(careerAreas))
           /\ Len(top) <= 3
           /\ Range(top) \subseteq Range(careerAreas)
           /\ \A i, j \in 1..Len(top) :
                 i < j => Before(top, careerAreas, result.scores, top[i], top[j])
           /\ \A a \in Range(careerAreas) \ Range(top) : \A i \in 1..Len(top) :
                 Before(top, careerAreas, result.scores, top[i], a)

(* the top is led by a later-declared area and the next two places are a tie *)
C2_Witness ==
    /\ result.status = "ok"
    /\ result.topCareerAreas[1] # "Art"
    /\ result.scores[result.topCareerAreas[2]] = result.scores[result.topCareerAreas[3]]
    /\ result.scores[result.topCareerAreas[2]] > 0

(* the reply is text that neither the first extraction nor the cleanup
   retry can parse *)
Unparseable(text) ==
    /\ ~JSONparse(ExtractedText(text)).ok
    /\ ~JSONparse(CleanedText(text)).ok

HasExplanation(v) ==
    /\ HasKey(v, "explanation")
    /\ GetKey(v, "explanation").t = "str"

(* C8: when the generator returns text that is not JSON, analyzeQuizAnswers
   still returns non-empty topCareerAreas and an aiAnalysis whose
   explanation is a non-empty string. *)
C8_GarbageReplyGetsNarrative ==
    (result.status = "ok" /\ reply.ok /\ Unparseable(reply.text)) =>
        /\ Len(result.topCareerAreas) > 0
        /\ HasExplanation(result.aiAnalysis)

----------------------------------------------------------------------------
(* Claims about the content pipeline (checked under SpecContent) *)

(* C9: when the video search call rejects, getVerifiedEducationalContent
   returns videos = [] while games, books and resources are still what their
   own generators produce (generator output or the category's fallback). *)
C9_VideoFailureKeepsOtherCategories ==
    (cout.status = "done" /\ cin.call = "content" /\ cin.analysis.hasTop /\ ~cin.video.ok) =>
        /\ cout.videos = <<>>
        /\ cout.games = generateEducationalGames(cin.analysis.ageRange, cin.games)
        /\ cout.books = generateBookRecommendations(cin.analysis.ageRange, cin.books)
        /\ cout.resources = generateResourceRecommendations(cin.analysis.ageRange, cin.resources)

(* C10: when the generator's reply cannot be parsed even after the cleanup
   retry, each generator returns its category's hardcoded fallback list,
   which is non-empty (for books the list of the given age range). *)
C10_UnparseableReplyGetsFallbackList ==
    /\ (cout.status = "done" /\ cin.call = "games" /\ cin.games.ok /\ Unparseable(cin.games.text)) =>
           cout.games = FallbackGames(cin.analysis.ageRange) /\ cout.games # <<>>
    /\ (cout.status = "done" /\ cin.call = "books" /\ cin.books.ok /\ Unparseable(cin.books.text)) =>
           cout.books = FallbackBooks(cin.analysis.ageRange) /\ cout.books # <<>>
    /\ (cout.status = "done" /\ cin.call = "resources" /\ cin.resources.ok /\ Unparseable(cin.resources.text)) =>
           cout.resources = FallbackResources(cin.analysis.ageRange) /\ cout.resources # <<>>

----------------------------------------------------------------------------
(* Claims about the quiz resolver (checked under Spec) *)

Resolvers == {"content", "careers", "analysis"}

(* the step in which getLatestQuiz runs and returns *)
ResolveStep(p) ==
    /\ op[p].pc = "idle"
    /\ op'[p].kind \in Resolvers
    /\ op'[p].pc = "callerRepair" \/ op'[p].kind = "analysis"

(* getLatestQuiz has returned to request p *)
HasResolved(p) ==
    /\ op[p].kind \in Resolvers
    /\ op[p].pc = "callerRepair" \/ op[p].kind = "analysis"

Stored(st, id) == st[CHOOSE i \in 1..Len(st) : st[i].id = id]

IsStored(st, id) == \E i \in 1..Len(st) : st[i].id = id

(* C3: every record getLatestQuiz returns that has non-empty answers has
   submitted = true and completed = true, in the returned value and in the
   store, whichever resolution step found it. *)
C3_ResolvedRecordHasBothFlags ==
    \A p \in Procs :
        (HasResolved(p) /\ Exists(op[p].doc) /\ op[p].doc.answers # <<>>) =>
            /\ op[p].doc.submitted /\ op[p].doc.completed
            /\ Stored(store, op[p].doc.id).submitted
            /\ Stored(store, op[p].doc.id).completed

Stale(r) == r.answers # <<>> /\ ~r.submitted /\ ~r.completed

Repaired(r) == r.submitted /\ r.completed /\ r.submittedAt # NoDate

(* C4: resolving by user id only a record with answers and both flags false
   leaves the stored record with both flags true and a submission date, and
   the correction is written once in the operation: the caller's own repair
   check after getLatestQuiz does not write it again. *)
C4_UserOnlyRepairWrittenOnce ==
    [][\A p \in Procs :
          /\ ( /\ ResolveStep(p)
               /\ op'[p].quizId = <<>>
               /\ Exists(op'[p].doc)
               /\ Stale(Stored(store, op'[p].doc.id)) )
             => /\ Repaired(Stored(store', op'[p].doc.id))
                /\ Repaired(op'[p].doc)
                /\ op'[p].repairSaves = 1
          /\ ( /\ op[p].kind \in {"content", "careers"}
               /\ op[p].pc \in {"callerRepair", "lazyAnalysis", "finish"}
               /\ op[p].quizId = <<>>
               /\ op[p].how = "any"
               /\ op[p].repairSaves = 1 )
             => /\ op'[p].repairSaves = 1
                /\ Repaired(Stored(store', op[p].doc.id))
      ]_vars

C4_Witness ==
    /\ op["p1"].pc = "done"
    /\ op["p1"].kind = "content"
    /\ op["p1"].quizId = <<>>
    /\ op["p1"].how = "any"
    /\ op["p1"].repairSaves = 1
    /\ op["p1"].saves = 2
    /\ Repaired(Stored(store, op["p1"].doc.id))
    /\ Stored(store, op["p1"].doc.id).submittedAt = Now

ExactHits(st, userId, quizId) ==
    {i \in 1..Len(st) : st[i].id = quizId /\ st[i].user = userId}

IdHits(st, quizId) == {i \in 1..Len(st) : st[i].id = quizId}

(* the records the substring scan sees: the first ScanLimit of the store *)
ScannedHits(st, quizId) ==
    {i \in 1..Min(ScanLimit, Len(st)) : Includes(st[i].id, quizId)}

(* the ScanLimit most recently created records *)
RecentHits(st, quizId) ==
    {i \in 1..Len(st) : i > Len(st) - ScanLimit /\ Includes(st[i].id, quizId)}

IdStepsHit(st, userId, quizId, hits) ==
    quizId # <<>> /\ (IdHits(st, quizId) # {} \/ hits # {})

(* the order of the id-based steps, with the substring step seeing the
   records in hits(store) *)
IdStepOrder(p, hits) ==
    (ResolveStep(p) /\ op'[p].quizId # <<>>) =>
        LET u == op'[p].userId
            q == op'[p].quizId
            d == op'[p].doc
        IN /\ ExactHits(store, u, q) # {} =>
                 d.id = q /\ d.user = u /\ op'[p].how = "idAndUser"
           /\ (ExactHits(store, u, q) = {} /\ IdHits(store, q) # {}) =>
                 d.id = q /\ op'[p].how = "idOnly"
           /\ (IdHits(store, q) = {} /\ hits # {}) =>
                 d.id \in {store[i].id : i \in hits} /\ op'[p].how = "substring"
           /\ (IdHits(store, q) = {} /\ hits = {}) =>
                 op'[p].how \in {"submitted", "completed", "any", "none"}

(* C5 as stated: with a quizId the steps are (1) id and user, (2) id only,
   (3) the substring scan over a bounded window of recent records; a later
   step is used only when every earlier one found nothing. *)
C5_Original_RecentWindow ==
    [][\A p \in Procs : IdStepOrder(p, RecentHits(store, op'[p].quizId))]_vars

(* C5 amended: the window of step (3) is the first ScanLimit records of the
   unsorted find(), in store order, and its first match is returned. *)
C5_IdStepsInOrder ==
    [][\A p \in Procs :
          /\ IdStepOrder(p, ScannedHits(store, op'[p].quizId))
          /\ (ResolveStep(p) /\ op'[p].how = "substring") =>
                op'[p].doc.id = store[SetMin(ScannedHits(store, op'[p].quizId))].id
      ]_vars

(* step (3) decided, among two matches in the window, for a record of
   another user *)
C5_Witness ==
    /\ op["p1"].pc = "done"
    /\ op["p1"].how = "substring"
    /\ op["p1"].doc.user # op["p1"].userId
    /\ Cardinality(ScannedHits(store, op["p1"].quizId)) = 2

UserHits(st, u, flag) ==
    {i \in 1..Len(st) : st[i].user = u /\ (flag = "any" \/ st[i][flag])}

(* the most recently created record among hits, which is not empty *)
MostRecent(st, hits) ==
    st[CHOOSE i \in hits : \A j \in hits : st[j].createdAt <= st[i].createdAt]

(* C6: without a quizId, or when every id-based step found nothing,
   getLatestQuiz returns the user's most recent submitted record, else the
   most recent completed one, else the most recent one whatever its flags,
   and no-match (null), not an error, when the user has no record. *)
C6_UserFallbackChain ==
    [][\A p \in Procs :
          ( /\ ResolveStep(p)
            /\ ~IdStepsHit(store, op'[p].userId, op'[p].quizId,
                           ScannedHits(store, op'[p].quizId)) )
          => LET u == op'[p].userId
                 sub == UserHits(store, u, "submitted")
                 com == UserHits(store, u, "completed")
                 all == UserHits(store, u, "any")
                 d == op'[p].doc
             IN /\ sub # {} => d = MostRecent(store, sub)
                /\ (sub = {} /\ com # {}) => d = MostRecent(store, com)
                /\ (sub = {} /\ com = {} /\ all # {}) => d.id = MostRecent(store, all).id
                /\ all = {} => /\ ~Exists(d)
                               /\ op'[p].kind \in {"content", "careers"} =>
                                      op'[p].outcome # "error"
      ]_vars

(* the id-based steps found nothing and the second fallback decided, with
   an older and a newer completed record of the user to choose from *)
C6_Witness ==
    /\ op["p1"].pc = "done"
    /\ op["p1"].quizId # <<>>
    /\ op["p1"].how = "completed"
    /\ Cardinality(UserHits(store, op["p1"].userId, "completed")) = 2
    /\ UserHits(store, op["p1"].userId, "submitted") = {}
    /\ op["p1"].kind = "analysis"

AllHits(st, quizId) == {i \in 1..Len(st) : Includes(st[i].id, quizId)}

Truncated(quizId) == Len(quizId) \in 1..(IdLen - 1)

(* C7 as stated: a truncated quizId that is a substring of exactly one
   stored id resolves to that record, whatever the size of the store and
   the position of the record. *)
C7_Original_AnyPosition ==
    \A p \in Procs :
        (HasResolved(p) /\ Truncated(op[p].quizId)
            /\ Cardinality(AllHits(store, op[p].quizId)) = 1) =>
            \A i \in AllHits(store, op[p].quizId) : op[p].doc.id = store[i].id

(* C7 amended: ... resolves to that record when the record is among the
   first ScanLimit records of the store. *)
C7_UniqueSubstringInWindow ==
    \A p \in Procs :
        (HasResolved(p) /\ Truncated(op[p].quizId)
            /\ Cardinality(AllHits(store, op[p].quizId)) = 1) =>
            \A i \in AllHits(store, op[p].quizId) :
                i <= ScanLimit => op[p].doc.id = store[i].id /\ op[p].how = "substring"

(* a store larger than the window, the one match at the end of the window *)
C7_Witness ==
    /\ HasResolved("p1")
    /\ Truncated(op["p1"].quizId)
    /\ Len(store) > ScanLimit
    /\ AllHits(store, op["p1"].quizId) = {ScanLimit}
    /\ op["p1"].doc.id = store[ScanLimit].id

----------------------------------------------------------------------------
(* Claims on the error handling of the pipeline and the scoring engine *)

IsList(s) == DOMAIN s = 1..Len(s)

(* C11: getVerifiedEducationalContent never raises to its caller: whatever
   the video search and the three generator calls do, and for an analysis
   without topCareerAreas, it returns an object with the four lists videos,
   games, books and resources. *)
C11_ContentNeverRaises ==
    (cin.call = "content" /\ cout.status # "none") =>
        /\ cout.status = "done"
        /\ IsList(cout.videos) /\ IsList(cout.games)
        /\ IsList(cout.books) /\ IsList(cout.resources)

(* every provider fails at once and the analysis is well-formed *)
C11_Witness ==
    /\ cin.call = "content" /\ cout.status = "done"
    /\ cin.analysis.hasTop
    /\ ~cin.video.ok /\ ~cin.games.ok /\ ~cin.books.ok /\ ~cin.resources.ok

(* C12: analyzeQuizAnswers fails exactly when the quiz's age range is not
   one of 6-8, 9-12, 13-15, 16-18; with a supported range it returns an
   Analysis whether the text generator replies (with anything) or fails. *)
C12_FailsOnlyOnUnsupportedRange ==
    result.status # "none" =>
        /\ result.status \in {"ok", "error"}
        /\ result.status = "error" <=>
               quiz.ageRange \notin {"6-8", "9-12", "13-15", "16-18"}

(* an answered quiz whose age range is not configured *)
C12_Witness ==
    /\ result.status = "error"
    /\ quiz.ageRange = "6-12"
    /\ quiz.answers # <<>>

(* C13: when the text-generator call itself fails, the narrative is the
   canned one: an object with exactly the fields explanation, skills,
   activities, encouragement, whose explanation is the fixed sentence
   followed by the top career areas and nothing else; and analyzeQuizAnswers
   succeeds with the scores computed from the answers. *)
C13_TransportFailureGetsCannedNarrative ==
    (result.status # "none" /\ ~reply.ok /\ quiz.ageRange \in SupportedRanges) =>
        /\ result.status = "ok"
        /\ result.aiAnalysis.t = "obj"
        /\ result.aiAnalysis.keys = <<"explanation", "skills", "activities", "encouragement">>
        /\ GetKey(result.aiAnalysis, "explanation") =
               JStr(<<"Based on your answers, you show strong interest in">>
                    \o result.topCareerAreas)
        /\ GetKey(result.aiAnalysis, "skills").t = "arr"
        /\ GetKey(result.aiAnalysis, "activities").t = "arr"
        /\ GetKey(result.aiAnalysis, "encouragement").t = "str"
        /\ \A area \in DOMAIN result.scores :
               result.scores[area] = SumPoints(quiz, area, Len(quiz.answers))

(* the generator is down while a quiz with points to count is analysed *)
C13_Witness ==
    /\ result.status = "ok" /\ ~reply.ok
    /\ HasKey(result.aiAnalysis, "encouragement")
    /\ \E area \in DOMAIN result.scores : result.scores[area] > 0

(* C14: two runs of analyzeQuizAnswers on the same quiz agree on success or
   failure, on the scores, on topCareerAreas and on the age range, whatever
   the text generator does in each run; only aiAnalysis may differ. *)
C14_ScoresIndependentOfNarrative ==
    (result.status # "none" /\ result2.status # "none") =>
        /\ result.status = result2.status
        /\ result.scores = result2.scores
        /\ result.topCareerAreas = result2.topCareerAreas
        /\ result.ageRange = result2.ageRange

(* the generator fails in one run and replies in the other, the narratives
   differ and there are points to count *)
C14_Witness ==
    /\ result.status = "ok" /\ result2.status = "ok"
    /\ ~reply.ok /\ reply2.ok
    /\ result.aiAnalysis # result2.aiAnalysis
    /\ result.scores["Art"] > 0

ConfiguredAreas(ageRange) ==
    CASE ageRange = "6-8"  -> {"Art", "Science", "Technology", "Nature", "Communication"}
      [] ageRange = "9-12" -> {"Art", "Science", "Technology", "Nature", "Communication",
                               "Leadership"}
      [] ageRange = "13-15" -> {"Art", "Science", "Technology", "Nature", "Communication",
                                "Leadership", "Business"}
      [] ageRange = "16-18" -> {"Art", "Science", "Technology", "Nature", "Communication",
                                "Leadership", "Business", "Healthcare"}
      [] OTHER -> {}

MatrixAreas(q) ==
    UNION {Range(q.questions[i].areas) :
              i \in {j \in 1..Len(q.questions) : j <= Len(q.answers)}}

(* C15: the keys of the returned scores are exactly the career areas
   configured for the quiz's age range: an area named only by a question's
   scoring matrix is not added, and a configured area is present even with
   score 0. *)
C15_ScoreKeysAreConfiguredAreas ==
    result.status = "ok" => DOMAIN result.scores = ConfiguredAreas(quiz.ageRange)

(* an answered question scores an area that is not configured, and a
   configured area ends with score 0 *)
C15_Witness ==
    /\ result.status = "ok"
    /\ MatrixAreas(quiz) \ ConfiguredAreas(quiz.ageRange) # {}
    /\ \E area \in DOMAIN result.scores : result.scores[area] = 0
    /\ \E area \in DOMAIN result.scores : result.scores[area] > 0

(* C16: analyzeQuizAnswers does not fail on an answers array shorter or
   longer than the question list: the scores are those of the answers that
   have a question, so a question without an answer adds nothing and an
   answer beyond the last question is ignored. *)
C16_AnswerLengthMismatchTolerated ==
    (result.status # "none" /\ quiz.ageRange \in SupportedRanges
        /\ Len(quiz.answers) # Len(quiz.questions)) =>
        /\ result.status = "ok"
        /\ \A area \in DOMAIN result.scores :
               result.scores[area] =
                   SumPoints(quiz, area, Min(Len(quiz.answers), Len(quiz.questions)))

(* more answers than questions, the extra answer would score if it counted *)
C16_Witness ==
    /\ result.status = "ok"
    /\ Len(quiz.questions) = 1 /\ Len(quiz.answers) = 2
    /\ quiz.questions[1] = ArtScience
    /\ quiz.answers = <<0, 0>>
    /\ result.scores["Art"] = 3

(* fewer answers than questions *)
C16_WitnessShorter ==
    /\ result.status = "ok"
    /\ quiz.questions = <<ArtScience, ArtScience>> /\ quiz.answers = <<0>>
    /\ result.scores["Art"] = 3

----------------------------------------------------------------------------
(* Claims on the recommendation requests and on submitQuizAnswers *)

Recommenders == {"content", "careers"}

(* the quiz a recommendation request works on: the one getLatestQuiz gave
   it, or, when the request ended before resolving, the one it would give *)
QuizOf(o) ==
    IF o.outcome = "error" THEN getLatestQuiz(store, o.userId, o.quizId).doc ELSE o.doc

(* no quiz, or a quiz with no answers that has both flags false or has no
   analysis (with no answers none can be computed) *)
NoUsableQuiz(d) ==
    \/ ~Exists(d)
    \/ d.answers = <<>> /\ ~d.submitted /\ ~d.completed
    \/ d.answers = <<>> /\ ~HasAnalysis(d)

(* C17: a recommendation request (generateEducationalContent or
   getCareerRecommendations) made when no usable quiz exists ends with
   generic content marked as fallback and not with an error; and a result
   built from a real quiz analysis is not marked as fallback. *)
C17_NoUsableQuizGetsMarkedFallback ==
    \A p \in Procs :
        (op[p].pc = "done" /\ op[p].kind \in Recommenders) =>
            /\ NoUsableQuiz(QuizOf(op[p])) => op[p].outcome = "fallback"
            /\ ~NoUsableQuiz(QuizOf(op[p])) => op[p].outcome = "real"

(* C18: a failing call to the main service for the user is not surfaced by
   a recommendation request: the request still returns a result, real or
   fallback, and generateEducationalContent returns a bundle. *)
C18_UserServiceFailureNotSurfaced ==
    \A p \in Procs :
        (op[p].pc = "done" /\ op[p].kind \in Recommenders /\ op[p].userSvc = "fails") =>
            /\ op[p].outcome \in {"real", "fallback"}
            /\ op[p].kind = "content" => op[p].bundle.status = "done"

(* C19: the award is best-effort: it is attempted exactly when a token and
   a userId came with the submission and only after the quiz was saved; a
   failing award does not fail submitQuizAnswers and leaves the saved quiz
   (answers, flags, analysis) as it was written. *)
C19_RewardIsBestEffort ==
    \A p \in Procs :
        (op[p].kind = "submit" /\ op[p].reward # "none") =>
            /\ op[p].outcome = "submitted"
            /\ op[p].saves = 1
            /\ op[p].reward \in {"awarded", "failed"} <=> (op[p].token /\ op[p].withUser)
            /\ LET s == Stored(store, op[p].quizId)
               IN /\ s.answers = op[p].doc.answers
                  /\ s.submitted /\ s.completed
                  /\ s.analysis = op[p].doc.analysis

(* the award was attempted and failed after answers were saved *)
C19_Witness ==
    /\ op["p1"].kind = "submit" /\ op["p1"].pc = "done"
    /\ op["p1"].reward = "failed"
    /\ op["p1"].outcome = "submitted"
    /\ Stored(store, op["p1"].quizId).answers = <<0, 3>>

(* C20: two concurrent submitQuizAnswers on the same quiz both complete
   successfully, neither rejected because of the other, and each save
   writes its answers, so the stored answers are those of the save executed
   last. *)
C20_ConcurrentSubmissionsLastWriterWins ==
    [][\A p \in Procs :
          (op[p].pc = "submitSave" /\ op'[p].pc # "submitSave") =>
              /\ op'[p].pc = "submitAward"
              /\ Stored(store', op[p].quizId).answers = op[p].doc.answers]_vars

----------------------------------------------------------------------------
(* Claims about the life of a stored quiz *)

Submitted(r) == r.submitted /\ r.completed /\ r.answers # <<>> /\ HasAnalysis(r)

(* C21: once a quiz has been submitted successfully (answers stored, both
   flags true, analysis attached) no later step of any operation, a second
   submitQuizAnswers included, changes its stored answers, and no step
   removes a record from the store. *)
C21_SubmittedAnswersNeverChange ==
    [][/\ Len(store') >= Len(store)
       /\ \A i \in 1..Len(store) :
             /\ store'[i].id = store[i].id
             /\ Submitted(store[i]) => store'[i].answers = store[i].answers]_vars

(* C22: after a successful submitQuizAnswers the stored answers list is as
   long as the question list of the quiz. *)
C22_StoredAnswersMatchQuestions ==
    \A p \in Procs :
        (op[p].kind = "submit" /\ op[p].outcome = "submitted") =>
            Len(Stored(store, op[p].quizId).answers)
                = Len(Stored(store, op[p].quizId).questions)

(* C23 as stated: no single execution of an operation saves the quiz
   record more than once. *)
C23_Original_OneSavePerOperation ==
    \A p \in Procs : op[p].saves <= 1

(* C23: submitQuizAnswers saves the quiz record at most once per execution,
   and exactly once when it succeeds; generateEducationalContent and
   getCareerRecommendations save the resolved record at most twice, at
   most once for the flag repair and at most once for the lazy analysis. *)
C23_SavesPerOperation ==
    \A p \in Procs :
        /\ op[p].kind = "submit" =>
              /\ op[p].saves <= 1
              /\ op[p].outcome = "submitted" => op[p].saves = 1
        /\ op[p].kind \in Recommenders =>
              /\ op[p].repairSaves <= 1
              /\ op[p].saves - op[p].repairSaves <= 1

C23_Witness ==
    \E p \in Procs :
        /\ op[p].kind \in Recommenders /\ op[p].pc = "done"
        /\ op[p].repairSaves = 1 /\ op[p].saves = 2
        /\ Submitted(Stored(store, op[p].doc.id))

----------------------------------------------------------------------------
(* Claims about the extractors (checked under SpecExtract) *)

(* the name an element of topCareerAreas stands for *)
NameOf(area) == IF area.t = "object" THEN area.career ELSE area.v

(* an input on which the extraction fails: an invalid value, or a list
   with an element the mapping cannot read *)
Unreadable(analysis, field, key) ==
    \/ analysis.t = "invalid"
    \/ /\ analysis.t = "object"
       /\ analysis[field].t = "array"
       /\ \E i \in 1..Len(analysis[field].v) :
             \/ analysis[field].v[i].t = "null"
             \/ analysis[field].v[i].t = "object" /\ key \notin DOMAIN analysis[field].v[i]

(* the text the keyword scan runs over *)
ScannedText(analysis) ==
    IF analysis.t = "string" THEN analysis.words ELSE Stringify(analysis)

(* the patterns found in the text, by position in the scan order *)
PatternHits(analysis) ==
    {k \in 1..Len(CareerPatterns) : Mentions(ScannedText(analysis), CareerPatterns[k].lower)}

(* the k-th smallest member of a set of numbers *)
Nth(S, k) == CHOOSE x \in S : Cardinality({y \in S : y < x}) = k - 1

(* C24: extractCareerRecommendations returns at most 5 records for every
   input, in the order of the analysis's topCareerAreas or, on the text
   path, in the fixed keyword scan order; both extractors return an empty
   list, never an error, when the extraction fails. *)
C24_ExtractorsCappedOrderedTotal ==
    cout.status # "none" =>
        /\ cout.status = "returned"
        /\ Unreadable(cin.analysis, IF cin.call = "extractCareerRecommendations"
                                    THEN "topCareerAreas" ELSE "personalityTraits",
                      IF cin.call = "extractCareerRecommendations" THEN "career" ELSE "trait")
              => cout.list = <<>>
        /\ cin.call = "extractCareerRecommendations" =>
              /\ Len(cout.list) <= 5
              /\ IF cin.analysis.t = "object" /\ cin.analysis.topCareerAreas.t = "array"
                 THEN LET areas == cin.analysis.topCareerAreas.v IN
                      ~Unreadable(cin.analysis, "topCareerAreas", "career") =>
                          /\ Len(cout.list) = Min(5, Len(areas))
                          /\ \A i \in 1..Len(cout.list) :
                                cout.list[i].career = NameOf(areas[i])
                 ELSE cin.analysis.t # "invalid" =>
                          /\ Len(cout.list) = Min(5, Cardinality(PatternHits(cin.analysis)))
                          /\ \A i \in 1..Len(cout.list) :
                                cout.list[i].career
                                    = CareerPatterns[Nth(PatternHits(cin.analysis), i)].key

(* more than five areas, and more than five keywords in a text *)
C24_Witness ==
    /\ cin.call = "extractCareerRecommendations"
    /\ cout.status = "returned" /\ Len(cout.list) = 5
    /\ cin.analysis.t = "object" /\ cin.analysis.topCareerAreas.t = "array"
    /\ Len(cin.analysis.topCareerAreas.v) = 6
    /\ cout.list[1].career = "Zoology" /\ cout.list[2].career = "Art"

C24_WitnessText ==
    /\ cin.call = "extractCareerRecommendations"
    /\ cout.status = "returned" /\ Len(cout.list) = 5
    /\ cin.analysis.t = "string" /\ Len(cin.analysis.words) = 10
    /\ cin.analysis.words[1] = "Musician"
    /\ cout.list[1].career = "Artist"

C24_WitnessFailure ==
    /\ cin.call = "extractPersonalityTraits"
    /\ cout.status = "returned" /\ cout.list = <<>>
    /\ cin.analysis.t = "object" /\ cin.analysis.personalityTraits.t = "array"
    /\ \E i \in 1..Len(cin.analysis.personalityTraits.v) :
          cin.analysis.personalityTraits.v[i].t = "null"

----------------------------------------------------------------------------
(* Claims about the list generators (checked under SpecContent) *)

CategoryKey(call) ==
    CASE call = "games" -> "games" [] call = "books" -> "books" [] OTHER -> "resources"

CategoryTag(call) ==
    CASE call = "games" -> "educational_game"
      [] call = "books" -> "educational_book"
      [] OTHER -> "learning_resource"

(* the list has the fields of the given values, in their order *)
SameItems(list, values) ==
    /\ Len(list) = Len(values)
    /\ \A i \in 1..Len(list) : list[i].fields = values[i]

(* C25: for a parseable generator reply the three generators return a
   list: an array held under the category key is unwrapped, any other
   single object becomes a one-element list, an array is kept with its
   length and order; every element of every returned list, the fallback
   lists included, carries the category tag. *)
C25_ParseableReplyBecomesTaggedList ==
    (cin.call \in {"games", "books", "resources"} /\ cout.status = "done") =>
        LET r    == cin[cin.call]
            list == cout[cin.call]
            key  == CategoryKey(cin.call)
        IN /\ \A i \in 1..Len(list) : list[i].type = CategoryTag(cin.call)
           /\ (r.ok /\ JSONparse(r.text).ok) =>
                 LET v == JSONparse(r.text).val IN
                 IF v.t = "arr" THEN SameItems(list, v.items)
                 ELSE IF HasKey(v, key) /\ GetKey(v, key).t = "arr"
                      THEN SameItems(list, GetKey(v, key).items)
                      ELSE SameItems(list, <<v>>)

----------------------------------------------------------------------------
(* Claims about ownership and persistence (checked under Spec) *)

FoundById(o) == o.how \in {"idOnly", "substring"}

(* C26: getLatestQuiz returns a record matched by id only or by id
   substring even when its owner differs from the requested userId, and
   generateEducationalContent / getCareerRecommendations then use that
   record, repairing and persisting it, without any ownership check. *)
C26_ForeignQuizUsedAndRepaired ==
    \A p \in Procs :
        (op[p].kind \in Recommenders /\ op[p].pc # "idle" /\ op[p].outcome # "error") =>
            /\ IsStored(store, op[p].quizId) => op[p].doc.id = op[p].quizId
            /\ (op[p].how = "substring") => Includes(op[p].doc.id, op[p].quizId)
            /\ (FoundById(op[p]) /\ op[p].pc \in {"lazyAnalysis", "finish", "done"}) =>
                  LET r == Stored(store, op[p].doc.id) IN
                  r.answers # <<>> => r.submitted /\ r.completed
            /\ (FoundById(op[p]) /\ op[p].pc = "done") =>
                  (op[p].outcome = "real") = Usable(op[p].doc)

(* a request of one user has repaired and completed the quiz of another *)
C26_Witness ==
    \E p \in Procs :
        /\ op[p].kind \in Recommenders /\ op[p].pc = "done"
        /\ op[p].how = "idOnly"
        /\ op[p].doc.user # op[p].userId
        /\ op[p].repairSaves = 1 /\ op[p].saves = 2
        /\ op[p].outcome = "real"
        /\ Stored(store, op[p].doc.id).user # op[p].userId
        /\ Submitted(Stored(store, op[p].doc.id))

C26_WitnessSubstring ==
    \E p \in Procs :
        /\ op[p].kind \in Recommenders /\ op[p].pc = "done"
        /\ op[p].how = "substring"
        /\ op[p].doc.user # op[p].userId
        /\ op[p].repairSaves = 1

(* C27: extractJson never raises and always returns text that parses as
   JSON: the fenced block, else the span from the first "{" to the last
   "}", else the whole text; after a failed parse the one cleanup retry;
   after that the literal "[]".  When the input is itself valid JSON with
   nothing around it, the returned text parses to the same value. *)
C27_ExtractJsonTotalAndFaithful ==
    (cin.call = "extractJson" /\ cout.status # "none") =>
        LET text == cin.analysis.words IN
        /\ cout.status = "returned"
        /\ JSONparse(cout.text).ok
        /\ cout.text \in {ExtractedText(text), CleanedText(text), <<"[", "]">>}
        /\ JSONparse(ExtractedText(text)).ok => cout.text = ExtractedText(text)
        /\ JSONparse(text).ok => JSONparse(cout.text).val = JSONparse(text).val

----------------------------------------------------------------------------
(* Claims about failed and interleaved submissions (checked under
   SpecSubmit) *)

FailedSubmit(o) ==
    o.kind = "submit" /\ o.pc = "done" /\ o.outcome \in {"notfound", "error"}

(* C28: when submitQuizAnswers fails, the stored quiz record is unchanged:
   no step of the failed submission writes to the store, and no reward
   call is made. *)
C28_FailedSubmitWritesNothing ==
    [][\A p \in Procs :
          /\ FailedSubmit(op'[p]) => op'[p].saves = 0 /\ op'[p].reward = "none"
          /\ (op'[p] # op[p] /\ op'[p].kind = "submit" /\ op'[p].saves = 0) =>
                store' = store]_vars

(* a submission has failed on the age range of the quiz, which is stored as
   it was created *)
C28_Witness ==
    \E p \in Procs :
        /\ FailedSubmit(op[p]) /\ op[p].outcome = "error"
        /\ IsStored(store, op[p].quizId)
        /\ Stored(store, op[p].quizId).ageRange = "6-12"
        /\ Stored(store, op[p].quizId).answers = <<>>
        /\ ~Stored(store, op[p].quizId).submitted
        /\ Stored(store, op[p].quizId).submittedAt = NoDate
        /\ ~HasAnalysis(Stored(store, op[p].quizId))

C28_WitnessNotFound ==
    \E p \in Procs : FailedSubmit(op[p]) /\ op[p].outcome = "notfound"

(* C29: in every reachable state, also under interleavings of
   submitQuizAnswers with the lazy analysis of generateEducationalContent /
   getCareerRecommendations on the same quiz, the analysis stored with a
   quiz was computed from the answers stored in that same record. *)
C29_AnalysisMatchesStoredAnswers ==
    \A i \in 1..Len(store) :
        HasAnalysis(store[i]) =>
            /\ store[i].analysis.scores
                  = analyzeQuizAnswers(AsQuiz(store[i]), Failure).scores
            /\ store[i].analysis.topCareerAreas
                  = analyzeQuizAnswers(AsQuiz(store[i]), Failure).topCareerAreas

----------------------------------------------------------------------------
(* Claims about the flag repair (checked under SpecSequential) *)

Consistent(r) == r.answers = <<>> \/ (r.submitted /\ r.completed)

(* the fields a repair may not touch *)
KeptByRepair(r, s) ==
    /\ \A f \in DOMAIN r \ FlagPaths : s[f] = r[f]
    /\ r.submittedAt # NoDate => s.submittedAt = r.submittedAt

(* a step of request p in which getLatestQuiz or the caller's repair runs *)
RepairPoint(p) ==
    \/ op[p].pc = "idle" /\ op'[p].kind \in Resolvers
    \/ op[p].pc = "callerRepair" /\ op'[p].pc = "lazyAnalysis"

(* C30: the flag repair changes only submitted, completed and an absent
   submittedAt, never the answers, questions, owner, age range, an existing
   submittedAt or an existing analysis; resolving a record that is already
   consistent (answers empty, or both flags true) writes nothing, so a
   second resolution of the same record writes nothing. *)
C30_RepairTouchesOnlyFlags ==
    [][\A p \in Procs :
          RepairPoint(p) =>
              /\ Len(store') = Len(store)
              /\ \A i \in 1..Len(store) :
                    /\ KeptByRepair(store[i], store'[i])
                    /\ store'[i] # store[i] =>
                          /\ store'[i].id = op'[p].doc.id
                          /\ ~Consistent(store[i])
                          /\ store'[i].submitted /\ store'[i].completed
                          /\ store'[i].submittedAt # NoDate
                          /\ op'[p].repairSaves = op[p].repairSaves + 1
              /\ store' = store => op'[p].repairSaves = op[p].repairSaves
              /\ (\E q \in Procs \ {p} :
                     op[q].repairSaves > 0 /\ op[q].doc.id = op'[p].doc.id)
                    => store' = store]_vars

(* one request has repaired the record, keeping its submittedAt, and a
   later request has resolved the same record without writing *)
C30_Witness ==
    /\ op["p1"].kind \in Recommenders /\ op["p1"].pc = "done"
    /\ op["p1"].repairSaves = 1
    /\ op["p2"].kind \in Resolvers /\ op["p2"].pc = "done"
    /\ op["p2"].doc.id = op["p1"].doc.id
    /\ op["p2"].saves = 0
    /\ Stored(store, op["p1"].doc.id).submittedAt = Earlier
    /\ Stored(store, op["p1"].doc.id).answers = SampleAnswers
    /\ Stored(store, op["p1"].doc.id).completed

====
